---- MODULE Spec2Model ----
(***************************************************************************)
(* Model of the financial-news ingestion scripts:                          *)
(*   deepseek-rag-financial-news/scripts/fetch_news.py                      *)
(*       FinancialNewsScraper: _make_request, _parse_date, _scrape_source,  *)
(*       fetch_article_content, fetch_news, _save_articles                  *)
(*   fin-news-deepseek-tuning/scripts/fetch_news.py                         *)
(*       NewsAPIFetcher: fetch_financial_news, _save_articles               *)
(*                                                                         *)
(* Spec        the two entry points fetch_news / fetch_financial_news       *)
(* SpecRequest one call of _make_request, attempt by attempt                *)
(* SpecDate    one call of _parse_date on a bounded set of date strings     *)
(* SpecExtract one _scrape_source node loop on a bounded set of pages      *)
(* SpecEnrich  one call of fetch_article_content on a bounded set of pages  *)
(***************************************************************************)
EXTENDS Integers, Sequences, FiniteSets, TLC

VARIABLES
    entry,         \* the entry point called: "fetch_news" or "fetch_financial_news"
    pc,            \* position of the running entry point
    args,          \* fetch_news: the `sources` argument as passed
    sources,       \* fetch_news: the resolved list of source ids (line 355-359)
    fetch_content, \* fetch_news argument
    save,          \* fetch_news / fetch_financial_news argument
    max_workers,   \* size of the worker pool in use
    tasks,         \* fetch_news: one future per submitted _scrape_source call
    all_articles,  \* the merged result list of the running entry point
    enrich,        \* fetch_news: state of each executor.map work item
    sink,          \* contents of data/raw_news.json
    outcome,       \* "running", "returned" or "raised"
    error,         \* the exception that escaped the entry point
    returned,      \* the list handed back to the caller
    wrote,         \* what the _save_articles call of this run did, "" if none
    page,          \* fetch_financial_news: params['page']
    api_log,       \* fetch_financial_news: pages requested and sleeps, in order
    req,           \* SpecRequest: the running _make_request call
    date,          \* SpecDate: the _parse_date call and what it returned
    data,          \* fetch_financial_news: the JSON body of the last page (line 81)
    scrape,        \* SpecExtract: the _scrape_source node loop and its result
    fetched        \* SpecEnrich: the fetch_article_content call and its result

vars == <<entry, pc, args, sources, fetch_content, save, max_workers, tasks,
          all_articles, enrich, sink, outcome, error, returned, wrote, page,
          api_log, req, date, data, scrape, fetched>>

\* the variables only the API path writes
apiVars == <<page, api_log>>
\* the variables only the scrape path writes
poolVars == <<args, sources, fetch_content, max_workers, tasks, enrich>>

----------------------------------------------------------------------------
(* Bounds of the model *)

\* how many entries of SOURCES are registered in the model
NumSources == 4
\* longest explicit `sources` argument
MaxSel == 2

----------------------------------------------------------------------------
(* Values *)

None == "<None>"
\* article['content'] is None: the field holds a text, so its None stands
\* among the character sequences
NoContent == <<"<None>">>
\* in place of a returned article: an exception left the call
Escaped == <<"<raised>">>

\* keys of FinancialNewsScraper.SOURCES, in dict order
SOURCES_KEYS ==
    <<"yahoo_finance", "cnbc", "seeking_alpha", "finviz",
      "market_watch_latest", "bloomberg", "investing_analysis", "zacks">>

\* the registry: `s in self.SOURCES`
SOURCES == {SOURCES_KEYS[i] : i \in 1..NumSources}

\* ids a caller may pass: two registered ones and one that is not registered
IdPool == {"cnbc", "finviz", "reddit"}

\* explicit `sources` arguments: every list over IdPool up to MaxSel long
SourceLists == UNION {[1..n -> IdPool] : n \in 0..MaxSel}

\* publishedAt strings in ascending lexicographic order
DateStrings ==
    <<"2024-01-01T00:00:00", "2024-02-01T00:00:00", "2024-03-01T00:00:00">>

\* Python's str comparison a <= b on the strings of DateStrings
StrLeq(a, b) ==
    LET ia == CHOOSE i \in 1..Len(DateStrings) : DateStrings[i] = a
        ib == CHOOSE i \in 1..Len(DateStrings) : DateStrings[i] = b
    IN ia <= ib

\* the dict built by _scrape_source for one article node
Stub(sid, url, published) ==
    [source |-> sid, url |-> url, publishedAt |-> published, content |-> NoContent]

Jan == DateStrings[1]
Feb == DateStrings[2]
Mar == DateStrings[3]

\* what the article nodes of each source's page hold: (url, date) per node.
\* One article occurs twice on one page and once more on another source's
\* page.
PageNodes(sid) ==
    CASE sid = "yahoo_finance" -> << <<"https://y.example/4", Feb>>,
                                     <<"https://y.example/5", Mar>> >>
      [] sid = "cnbc"          -> << <<"https://a.example/1", Jan>> >>
      [] sid = "seeking_alpha" -> << <<"https://s.example/2", Mar>> >>
      [] sid = "finviz"        -> << <<"https://a.example/1", Feb>>,
                                     <<"https://a.example/1", Feb>> >>
      [] OTHER                 -> << <<"https://o.example/3", Jan>> >>

\* select_one(source_config['date_selector']) raises: 'span.C\(#959595\)',
\* the date_selector of yahoo_finance, is no CSS selector (an id cannot
\* start with a digit), so the call raises SelectorSyntaxError whatever the
\* node holds.  Every other selector of SOURCES is well formed.
DateSelectorRaises(sid) == sid = "yahoo_finance"

\* SOURCES[sid]['url']
SourceUrl(sid) ==
    CASE sid = "yahoo_finance"       -> "https://finance.yahoo.com/news/"
      [] sid = "cnbc"                -> "https://www.cnbc.com/world/?region=world"
      [] sid = "seeking_alpha"       -> "https://seekingalpha.com/market-news"
      [] sid = "finviz"              -> "https://finviz.com/news.ashx"
      [] sid = "market_watch_latest" -> "https://www.marketwatch.com/latest-news?mod=top_nav"
      [] sid = "bloomberg"           -> "https://www.bloomberg.com/markets"
      [] sid = "investing_analysis"  -> "https://www.investing.com/analysis/most-popular-analysis"
      [] OTHER                       -> "https://www.zacks.com/stock-market-today"

----------------------------------------------------------------------------
(* Strings.  A text that the code takes apart (a date text, a title, an
   href, a URL, the text of a page) is a sequence of characters.  A character
   that a TLA+ string can hold is the string of that one character, with
   "\t", "\n", "\f" and "\r" for tab, line feed, form feed and carriage
   return; any other character (a control character, a character beyond
   U+00FF) is the string of its code point, as in "U+000B".  The definitions
   below know the characters up to U+00FF and the white space beyond. *)

DigitChars == <<"0", "1", "2", "3", "4", "5", "6", "7", "8", "9">>
UpperChars == <<"A", "B", "C", "D", "E", "F", "G", "H", "I", "J", "K", "L", "M", "N", "O", "P", "Q", "R", "S", "T", "U", "V", "W", "X", "Y", "Z">>
LowerChars == <<"a", "b", "c", "d", "e", "f", "g", "h", "i", "j", "k", "l", "m", "n", "o", "p", "q", "r", "s", "t", "u", "v", "w", "x", "y", "z">>
\* the letters U+00C0 to U+00DE and their lower case, U+00E0 to U+00FE
LatinUpperChars == <<"À", "Á", "Â", "Ã", "Ä", "Å", "Æ", "Ç", "È", "É", "Ê", "Ë", "Ì", "Í", "Î", "Ï", "Ð", "Ñ", "Ò", "Ó", "Ô", "Õ", "Ö", "Ø", "Ù", "Ú", "Û", "Ü", "Ý", "Þ">>
LatinLowerChars == <<"à", "á", "â", "ã", "ä", "å", "æ", "ç", "è", "é", "ê", "ë", "ì", "í", "î", "ï", "ð", "ñ", "ò", "ó", "ô", "õ", "ö", "ø", "ù", "ú", "û", "ü", "ý", "þ">>
\* superscript two, three and one: digits for str.isdigit, not for int()
SuperscriptDigits == {"²", "³", "¹"}

InSeq(list, c) == \E i \in DOMAIN list : list[i] = c
IndexOf(list, c) == CHOOSE i \in DOMAIN list : list[i] = c

\* a decimal digit: what int() reads and what \d of a regular expression
\* matches
IsDecimal(c) == InSeq(DigitChars, c)
\* str.isdigit on one character
IsDigit(c) == IsDecimal(c) \/ c \in SuperscriptDigits
\* c.isascii() and c.isalpha()
IsLetter(c) == InSeq(LowerChars, c) \/ InSeq(UpperChars, c)

\* str.lower
LowerChar(c) ==
    IF InSeq(UpperChars, c) THEN LowerChars[IndexOf(UpperChars, c)]
    ELSE IF InSeq(LatinUpperChars, c)
    THEN LatinLowerChars[IndexOf(LatinUpperChars, c)]
    ELSE c
Lower(text) == [i \in 1..Len(text) |-> LowerChar(text[i])]

\* the characters str.isspace holds for: what str.strip() removes and what
\* \s of a regular expression matches (the blank after "U+0085" is U+00A0)
Whitespace ==
    {"\t", "\n", "U+000B", "\f", "\r", "U+001C", "U+001D", "U+001E",
     "U+001F", " ", "U+0085", " ", "U+1680", "U+2000", "U+2001", "U+2002",
     "U+2003", "U+2004", "U+2005", "U+2006", "U+2007", "U+2008", "U+2009", "U+200A",
     "U+2028", "U+2029", "U+202F", "U+205F", "U+3000"}

\* str.lstrip(), str.rstrip(), str.strip()
StripLeft(text) ==
    IF \A i \in DOMAIN text : text[i] \in Whitespace THEN << >>
    ELSE SubSeq(text,
                CHOOSE i \in DOMAIN text :
                    /\ text[i] \notin Whitespace
                    /\ \A j \in 1..(i - 1) : text[j] \in Whitespace,
                Len(text))
StripRight(text) ==
    IF \A i \in DOMAIN text : text[i] \in Whitespace THEN << >>
    ELSE SubSeq(text, 1,
                CHOOSE i \in DOMAIN text :
                    /\ text[i] \notin Whitespace
                    /\ \A j \in (i + 1)..Len(text) : text[j] \in Whitespace)
Strip(text) == StripRight(StripLeft(text))

\* the one element of a singleton: Only({F(x) : x \in {e}}) is F(e) with e
\* evaluated once
Only(S) == CHOOSE x \in S : TRUE

\* `sub in text`
Contains(text, sub) ==
    \E i \in 1..(Len(text) - Len(sub) + 1) :
        SubSeq(text, i, i + Len(sub) - 1) = sub

\* str.startswith
StartsWith(text, prefix) ==
    Len(text) >= Len(prefix) /\ SubSeq(text, 1, Len(prefix)) = prefix

\* str.find(c): the first index from `from` on holding c, 0 if there is none
Find(text, c, from) ==
    IF \E i \in from..Len(text) : text[i] = c
    THEN CHOOSE i \in from..Len(text) :
            text[i] = c /\ \A j \in from..(i - 1) : text[j] # c
    ELSE 0

\* str.split(c)
RECURSIVE Split(_, _)
Split(text, c) ==
    LET i == Find(text, c, 1)
    IN IF i = 0 THEN <<text>>
       ELSE <<SubSeq(text, 1, i - 1)>> \o Split(SubSeq(text, i + 1, Len(text)), c)

\* c.join(parts)
RECURSIVE Join(_, _)
Join(parts, c) ==
    IF parts = << >> THEN << >>
    ELSE IF Len(parts) = 1 THEN parts[1]
    ELSE parts[1] \o <<c>> \o Join(Tail(parts), c)

\* str.strip() of a text that may hold line breaks
StripWs(text) == Strip(text)

----------------------------------------------------------------------------
(* _make_request *)

max_retries == 3
min_delay == 1
max_delay == 3

\* 2 ** k
RECURSIVE Pow2(_)
Pow2(k) == IF k = 0 THEN 1 ELSE 2 * Pow2(k - 1)

\* What one self.scraper.get(url) + raise_for_status() can do: answer with the
\* page, answer with an empty body, raise a requests RequestException
\* (connection error, timeout, HTTP error status), or raise an exception that
\* is no RequestException (cloudscraper's own Cloudflare exceptions derive
\* from Exception).
HttpOutcomes(url) ==
    { [kind |-> "ok", text |-> url],
      [kind |-> "ok", text |-> ""],
      [kind |-> "RequestException", text |-> ""],
      [kind |-> "Exception", text |-> ""] }

\* One iteration of `for attempt in range(max_retries)`, given what the GET
\* of this attempt does.  state "retry" = the loop goes on to attempt + 1,
\* backoff = the sleep of line 172 is taken first.
Attempt(attempt, o) ==
    IF o.kind = "ok"
    THEN [state |-> "returned", value |-> o.text, backoff |-> FALSE]
    ELSE IF o.kind = "RequestException"
    THEN IF attempt < max_retries - 1
         THEN [state |-> "retry", value |-> None, backoff |-> TRUE]
         ELSE [state |-> "returned", value |-> None, backoff |-> FALSE]
    ELSE [state |-> "raised", value |-> None, backoff |-> FALSE]

\* The whole loop from `attempt` on; outs[k] is what the GET of attempt k does.
RECURSIVE RequestLoop(_, _)
RequestLoop(attempt, outs) ==
    IF attempt >= max_retries
    THEN [state |-> "returned", value |-> None, attempts |-> attempt]
    ELSE LET r == Attempt(attempt, outs[attempt])
         IN IF r.state = "retry"
            THEN RequestLoop(attempt + 1, outs)
            ELSE [state |-> r.state, value |-> r.value, attempts |-> attempt + 1]

make_request(outs) == RequestLoop(0, outs)

\* The URLs SpecRequest calls _make_request with
RequestUrls == {SourceUrl("cnbc"), "https://a.example/1"}

\* random.uniform(self.min_delay, self.max_delay), at whole seconds
Delays == min_delay..max_delay
\* random.uniform(0, 1), at its two ends
Jitters == {0, 1}

\* _make_request(url) is called
CallMakeRequest(url) ==
    /\ req.state = "idle"
    /\ req' = [state |-> "running", url |-> url, attempt |-> 0,
               value |-> None, log |-> << >>]
    /\ UNCHANGED <<entry, pc, args, sources, fetch_content, save, max_workers,
                   tasks, all_articles, enrich, sink, outcome, error, returned,
                   wrote, page, api_log, date, data,
                   scrape, fetched>>

\* lines 158-175, one iteration of the loop: the delay of line 160, the GET,
\* and on a RequestException the backoff of lines 171-172 or the final
\* `return None`.  The log keeps every sleep and every GET in order.
RequestAttempt(o, delay, jitter) ==
    /\ req.state = "running"
    /\ req.attempt < max_retries
    /\ LET r == Attempt(req.attempt, o)
           slept == Append(req.log, [ev |-> "delay", k |-> req.attempt,
                                     secs |-> delay])
           got == Append(slept, [ev |-> o.kind, k |-> req.attempt, secs |-> 0])
           backed == IF r.backoff
                     THEN Append(got, [ev |-> "backoff", k |-> req.attempt,
                                       secs |-> Pow2(req.attempt) + jitter])
                     ELSE got
       IN req' = [req EXCEPT
                    !.state = IF r.state = "retry" THEN "running" ELSE r.state,
                    !.attempt = IF r.state = "retry" THEN req.attempt + 1
                                ELSE req.attempt,
                    !.value = r.value,
                    !.log = backed]
    /\ UNCHANGED <<entry, pc, args, sources, fetch_content, save, max_workers,
                   tasks, all_articles, enrich, sink, outcome, error, returned,
                   wrote, page, api_log, date, data,
                   scrape, fetched>>

\* every way the GETs of one _make_request(url) call can turn out
RequestRuns(url) == [0..(max_retries - 1) -> HttpOutcomes(url)]

\* Python truthiness of the Optional[str] _make_request returns: `if not html`
Falsy(html) == html = None \/ html = ""

----------------------------------------------------------------------------
(* _scrape_source *)

\* the stubs extracted from the article nodes of a page, in document order:
\* none where line 275 raises for every node (caught at line 290)
ExtractStubs(sid) ==
    IF DateSelectorRaises(sid) THEN << >>
    ELSE [i \in 1..Len(PageNodes(sid)) |->
             Stub(sid, PageNodes(sid)[i][1], PageNodes(sid)[i][2])]

\* _scrape_source(source_id, SOURCES[source_id]) given the GET outcomes:
\* kind "raised" = the call raises, kind "ok" = it returns `articles`.
scrape_source(sid, outs) ==
    LET html == make_request(outs)
    IN IF html.state = "raised"
       THEN [kind |-> "raised", articles |-> << >>]
       ELSE IF Falsy(html.value)
       THEN [kind |-> "ok", articles |-> << >>]
       ELSE [kind |-> "ok", articles |-> ExtractStubs(sid)]

----------------------------------------------------------------------------
(* fetch_article_content *)

\* the body selectors of lines 316-321, in the order they are tried
BODY_SELECTORS ==
    <<"article", ".article-body", ".article-content", ".story-body",
      ".story-content", ".post-content", ".entry-content", "main",
      "#article-body", "#content-body", ".content-article", ".article__body",
      "[itemprop=\"articleBody\"]", ".news-content", ".article-text">>

\* An article page once parsed and stripped of script, style, nav, header,
\* footer and aside elements (lines 306-310).  bodies: the elements that match
\* a body selector, in document order, each with the selector it matches and
\* its get_text(separator='\n'); paragraphs: p.get_text() of every <p>, in
\* document order; raises: parsing or selecting raises an exception.
Doc(bodies, paragraphs) ==
    [raises |-> FALSE, bodies |-> bodies, paragraphs |-> paragraphs]
BrokenDoc == [raises |-> TRUE, bodies |-> << >>, paragraphs |-> << >>]
Body(selector, text) == [selector |-> selector, text |-> text]

\* a lookup that takes the first container of the page, whatever selector
\* it matches
FirstBody_DocumentOrder(doc) == IF doc.bodies = << >> THEN 0 ELSE 1

\* lines 316-324: the first selector of the list that matches an element
\* wins, and select_one gives its first element in document order; 0 if no
\* selector matches
FirstBody(doc) ==
    LET matching == {k \in DOMAIN BODY_SELECTORS :
                        \E b \in DOMAIN doc.bodies :
                            doc.bodies[b].selector = BODY_SELECTORS[k]}
        k == CHOOSE k \in matching : \A m \in matching : k <= m
    IN IF matching = {} THEN 0
       ELSE CHOOSE b \in DOMAIN doc.bodies :
               /\ doc.bodies[b].selector = BODY_SELECTORS[k]
               /\ \A c \in 1..(b - 1) : doc.bodies[c].selector # BODY_SELECTORS[k]

\* lines 328-330: strip the text, strip every line, drop the blank lines
CleanText(text) ==
    LET lines == Split(StripWs(text), "\n")
        stripped == [n \in DOMAIN lines |-> StripWs(lines[n])]
    IN Join(SelectSeq(stripped, LAMBDA line : line # << >>), "\n")

\* line 336: the stripped texts of the paragraphs, blank ones dropped
ParagraphText(paragraphs) ==
    LET stripped == [n \in DOMAIN paragraphs |-> StripWs(paragraphs[n])]
    IN Join(SelectSeq(stripped, LAMBDA para : para # << >>), "\n")

\* lines 313-337: what the extraction does to article['content']
AssignContent(article, doc) ==
    LET b == FirstBody(doc)
    IN IF b # 0
       THEN [article EXCEPT !.content = CleanText(doc.bodies[b].text)]
       ELSE IF doc.paragraphs # << >>
       THEN [article EXCEPT !.content = ParagraphText(doc.paragraphs)]
       ELSE article

T_body == <<" ", "R", "a", "t", "e", "s", " ", "r", "i", "s", "e", " ", "\n", "\n", " ", " ", "M", "o", "r", "e", " ", "s", "o", "o", "n", "\n">>
T_blank == <<" ", "\n", " ", " ">>

\* the article pages fetch_news meets: one with a body, one with nothing
ArticleDocs ==
    {Doc(<<Body("article", T_body)>>, << >>), Doc(<< >>, << >>)}

\* fetch_article_content(article) with a handler that lets exceptions out
fetch_article_content_Unguarded(article, outs, doc) ==
    IF Falsy(article.url)
    THEN article
    ELSE LET html == make_request(outs)
         IN IF html.state = "raised" \/ doc.raises
            THEN [article EXCEPT !.content = Escaped]
            ELSE IF Falsy(html.value)
            THEN article
            ELSE AssignContent(article, doc)

\* fetch_article_content(article) given the GET outcomes and the page parsed:
\* an exception of _make_request or of the extraction is caught at line 338
fetch_article_content(article, outs, doc) ==
    IF Falsy(article.url)
    THEN article
    ELSE LET html == make_request(outs)
         IN IF html.state = "raised" \/ Falsy(html.value)
            THEN article
            ELSE IF doc.raises
            THEN article
            ELSE AssignContent(article, doc)

----------------------------------------------------------------------------
(* fetch_news *)

SCRAPE_WORKERS == 3
ENRICH_WORKERS == 3

Min(a, b) == IF a < b THEN a ELSE b

\* mutant of PoolSize: one worker thread per source
PoolSize_PerSource(n) == n

\* max_workers=min(3, len(sources))
PoolSize(n) == Min(SCRAPE_WORKERS, n)

\* [s for s in sources if s in self.SOURCES]
RECURSIVE ValidSources(_)
ValidSources(ids) ==
    IF ids = << >> THEN << >>
    ELSE IF Head(ids) \in SOURCES
         THEN <<Head(ids)>> \o ValidSources(Tail(ids))
         ELSE ValidSources(Tail(ids))

\* list(self.SOURCES.keys())
AllSources == [i \in 1..NumSources |-> SOURCES_KEYS[i]]

\* the work items of a pool that a worker thread is executing
Running(items) == {i \in DOMAIN items : items[i].st = "running"}

\* a ThreadPoolExecutor worker takes item i: the queue is FIFO and the pool
\* has max_workers threads
CanStart(items, i) ==
    /\ items[i].st = "queued"
    /\ \A j \in 1..(i - 1) : items[j].st # "queued"
    /\ Cardinality(Running(items)) < max_workers

\* insert x into a list sorted descending by publishedAt, after every element
\* that does not sort after it (list.sort is stable, also with reverse=True)
RECURSIVE InsertDesc(_, _)
InsertDesc(sorted, x) ==
    IF sorted = << >> THEN <<x>>
    ELSE IF StrLeq(x.publishedAt, Head(sorted).publishedAt)
         THEN <<Head(sorted)>> \o InsertDesc(Tail(sorted), x)
         ELSE <<x>> \o sorted

\* mutant of SortNewestFirst: the sort without reverse=True
RECURSIVE SortOldestFirst(_)
SortOldestFirst(list) ==
    IF list = << >> THEN << >>
    ELSE LET rest == SortOldestFirst(Tail(list))
             before == SelectSeq(rest, LAMBDA y :
                          ~StrLeq(Head(list).publishedAt, y.publishedAt))
             after == SelectSeq(rest, LAMBDA y :
                          StrLeq(Head(list).publishedAt, y.publishedAt))
         IN before \o <<Head(list)>> \o after

\* all_articles.sort(key=lambda x: x.get('publishedAt', ''), reverse=True)
RECURSIVE SortNewestFirst(_)
SortNewestFirst(list) ==
    IF list = << >> THEN << >>
    ELSE InsertDesc(SortNewestFirst(SubSeq(list, 1, Len(list) - 1)),
                    list[Len(list)])

\* the file after a write that failed part-way (open(..., 'w') truncated it)
Truncated == << [source |-> "", url |-> "<partial>", publishedAt |-> "",
                 content |-> NoContent] >>

\* the file left by an earlier run
PreviousRun == << [source |-> "cnbc", url |-> "https://old.example/0",
                   publishedAt |-> Jan, content |-> NoContent] >>

\* what open + json.dump of _save_articles can do
WriteOutcomes == {"written", "open_fails", "dump_fails"}

\* mutant of save_articles: the file is opened in append mode
save_articles_Append(articles, file, w) ==
    CASE w = "written"    -> [file |-> file \o articles, raised |-> FALSE]
      [] w = "open_fails" -> [file |-> file, raised |-> TRUE]
      [] OTHER            -> [file |-> Truncated, raised |-> TRUE]

\* mutant of save_articles: the error is logged and not re-raised
save_articles_Swallow(articles, file, w) ==
    CASE w = "written"    -> [file |-> articles, raised |-> FALSE]
      [] w = "open_fails" -> [file |-> file, raised |-> FALSE]
      [] OTHER            -> [file |-> Truncated, raised |-> FALSE]

\* _save_articles(articles): the file afterwards and whether the call raised
save_articles(articles, file, w) ==
    CASE w = "written"    -> [file |-> articles, raised |-> FALSE]
      [] w = "open_fails" -> [file |-> file, raised |-> TRUE]
      [] OTHER            -> [file |-> Truncated, raised |-> TRUE]

\* a join that waits for one work item only
Joined_AnyOne(items, st) == \E i \in DOMAIN items : items[i].st = st

\* The orchestrating thread gets past a pool: as_completed (line 370) has
\* yielded every future, list(executor.map(...)) (line 384) has every result,
\* and the exit of the `with` block has joined the worker threads.
Joined(items, st) == \A i \in DOMAIN items : items[i].st = st

\* lines 355-368: resolve the sources, create the pool, submit one
\* _scrape_source call per source
CallFetchNews(given, ids, fc, sv) ==
    LET srcs == IF given THEN ValidSources(ids) ELSE AllSources
        workers == PoolSize(Len(srcs))
    IN /\ pc = "idle"
       /\ sources' = srcs
       /\ fetch_content' = fc
       /\ save' = sv
       /\ all_articles' = << >>
       /\ IF workers <= 0
          THEN \* ThreadPoolExecutor(max_workers=0) raises ValueError
               /\ pc' = "done"
               /\ outcome' = "raised"
               /\ error' = "ValueError"
               /\ UNCHANGED <<max_workers, tasks>>
          ELSE /\ pc' = "scraping"
               /\ outcome' = "running"
               /\ max_workers' = workers
               /\ tasks' = [i \in 1..Len(srcs) |->
                              [sid |-> srcs[i], st |-> "queued",
                               res |-> "", articles |-> << >>]]
               /\ UNCHANGED error
       /\ entry' = "fetch_news"
       /\ args' = [given |-> given, ids |-> IF given THEN ids ELSE << >>]
       /\ UNCHANGED <<enrich, sink, returned, wrote, apiVars, req, date, data,
                   scrape, fetched>>

\* a pool thread starts executing self._scrape_source(source_id, ...)
StartSource(i) ==
    /\ pc = "scraping"
    /\ CanStart(tasks, i)
    /\ tasks' = [tasks EXCEPT ![i].st = "running"]
    /\ UNCHANGED <<entry, pc, args, wrote, sources, fetch_content, save, max_workers,
                   all_articles, enrich, sink, outcome, error, returned,
                   apiVars, req, date, data,
                   scrape, fetched>>

\* the _scrape_source call of task i ends: its future holds a list or an
\* exception
FinishSource(i) ==
    /\ pc = "scraping"
    /\ tasks[i].st = "running"
    /\ \E r \in {scrape_source(tasks[i].sid, outs) :
                    outs \in RequestRuns(SourceUrl(tasks[i].sid))} :
          tasks' = [tasks EXCEPT ![i].st = "finished",
                                 ![i].res = r.kind,
                                 ![i].articles = r.articles]
    /\ UNCHANGED <<entry, pc, args, wrote, sources, fetch_content, save, max_workers,
                   all_articles, enrich, sink, outcome, error, returned,
                   apiVars, req, date, data,
                   scrape, fetched>>

\* all_articles.extend(articles)
Extend(list, more) == list \o more

\* lines 370-376, one iteration of the as_completed loop: future i is done
\* and is yielded; future.result() returns the list or re-raises
CollectSource(i) ==
    /\ pc = "scraping"
    /\ tasks[i].st = "finished"
    /\ tasks' = [tasks EXCEPT ![i].st = "collected"]
    /\ all_articles' = IF tasks[i].res = "ok"
                       THEN Extend(all_articles, tasks[i].articles)
                       ELSE all_articles
    /\ UNCHANGED <<entry, pc, args, wrote, sources, fetch_content, save, max_workers,
                   enrich, sink, outcome, error, returned, apiVars, req, date, data,
                   scrape, fetched>>

\* as_completed is exhausted and the `with` block joins the pool; line 379
\* decides whether to enrich, lines 383-384 create the second pool and map
JoinSources ==
    /\ pc = "scraping"
    /\ Joined(tasks, "collected")
    /\ IF fetch_content /\ all_articles # << >>
       THEN /\ pc' = "enriching"
            /\ max_workers' = ENRICH_WORKERS
            /\ enrich' = [j \in 1..Len(all_articles) |-> [st |-> "queued"]]
       ELSE /\ pc' = "merged"
            /\ UNCHANGED <<max_workers, enrich>>
    /\ UNCHANGED <<entry, args, sources, fetch_content, save, tasks,
                   all_articles, sink, outcome, error, returned, wrote,
                   apiVars, req, date, data,
                   scrape, fetched>>

\* a pool thread starts executing self.fetch_article_content(all_articles[j])
StartEnrich(j) ==
    /\ pc = "enriching"
    /\ CanStart(enrich, j)
    /\ enrich' = [enrich EXCEPT ![j].st = "running"]
    /\ UNCHANGED <<entry, pc, args, wrote, sources, fetch_content, save, max_workers, tasks,
                   all_articles, sink, outcome, error, returned, apiVars, req, date, data,
                   scrape, fetched>>

\* fetch_article_content(all_articles[j]) ends; it changes the dict in place
FinishEnrich(j) ==
    /\ pc = "enriching"
    /\ enrich[j].st = "running"
    /\ \E a \in {fetch_article_content(all_articles[j], outs, doc) :
                    outs \in RequestRuns(all_articles[j].url),
                    doc \in ArticleDocs} :
          all_articles' = [all_articles EXCEPT ![j] = a]
    /\ enrich' = [enrich EXCEPT ![j].st = "done"]
    /\ UNCHANGED <<entry, pc, args, wrote, sources, fetch_content, save, max_workers, tasks,
                   sink, outcome, error, returned, apiVars, req, date, data,
                   scrape, fetched>>

\* list(executor.map(...)) has every result and the `with` block joins
JoinEnrich ==
    /\ pc = "enriching"
    /\ Joined(enrich, "done")
    /\ pc' = "merged"
    /\ UNCHANGED <<entry, args, sources, fetch_content, save, max_workers, tasks,
                   all_articles, enrich, sink, outcome, error, returned, wrote,
                   apiVars, req, date, data,
                   scrape, fetched>>

\* lines 387-392: sort, save if asked and there is something to save, return
SortSaveReturn ==
    /\ pc = "merged"
    /\ pc' = "done"
    /\ all_articles' = SortNewestFirst(all_articles)
    /\ IF save /\ all_articles' # << >>
       THEN \E w \in WriteOutcomes :
               LET s == save_articles(all_articles', sink, w)
               IN /\ wrote' = w
                  /\ sink' = s.file
                  /\ IF s.raised
                     THEN /\ outcome' = "raised"
                          /\ error' = "IOError"
                          /\ UNCHANGED returned
                     ELSE /\ outcome' = "returned"
                          /\ returned' = all_articles'
                          /\ UNCHANGED error
       ELSE /\ outcome' = "returned"
            /\ returned' = all_articles'
            /\ UNCHANGED <<sink, error, wrote>>
    /\ UNCHANGED <<entry, args, sources, fetch_content, save, max_workers, tasks,
                   enrich, apiVars, req, date, data,
                   scrape, fetched>>

----------------------------------------------------------------------------
(* NewsAPIFetcher.fetch_financial_news *)

\* params['pageSize']
API_PAGE_SIZE == 100
\* the free-tier cap of line 97
API_HARD_CAP == 100
\* time.sleep(1)
API_PAGE_DELAY == 1

\* sizes of data['articles'] the model lets a page have (at most pageSize)
PageCounts == {0, 40, API_PAGE_SIZE}
\* values of data['totalResults']; -1 stands for a response without the key
TotalResults == {-1, 40, 100, 250}

\* What one page request can do: session.get / raise_for_status raise a
\* RequestException, or the JSON body arrives with a status, the articles of
\* the page and totalResults.
ApiResponses ==
    {[kind |-> "RequestException", status |-> "", n |-> 0, total |-> -1]}
    \cup {[kind |-> "json", status |-> "error", n |-> 0, total |-> -1]}
    \cup {[kind |-> "json", status |-> "ok", n |-> n, total |-> t] :
             n \in PageCounts, t \in TotalResults}

\* `data` before the first response has been parsed
NoData == [kind |-> "none", status |-> "", n |-> 0, total |-> -1]

\* The exception a failing page request leaves fetch_financial_news with:
\* session.get / raise_for_status raise a requests RequestException, re-raised
\* at lines 103-105; a body whose status is not 'ok' raises a plain Exception
\* at line 84, re-raised at lines 106-108.
RaisedBy_OneKind(resp) == "RequestException"

RaisedBy(resp) ==
    IF resp.kind = "RequestException" THEN "RequestException" ELSE "Exception"

\* data.get('articles', []) of page p holding n articles
ApiArticles(p, n) == [i \in 1..n |-> <<p, i>>]

\* line 100: params['page'] += 1
NextPage_SkipOne(p) == p + 2

NextPage(p) == p + 1

\* data.get('totalResults', 0)
GetTotalResults(resp) == IF resp.total = -1 THEN 0 ELSE resp.total

\* a loop that trusts totalResults alone
LoopEnds_TotalOnly(n, resp) == n >= GetTotalResults(resp)

\* lines 93-98: the two tests that end the loop once a non-empty page was
\* added and the list holds n articles
LoopEnds(n, resp) == n >= GetTotalResults(resp) \/ n >= API_HARD_CAP

\* what makedirs + open + json.dump of NewsAPIFetcher._save_articles can do
ApiWriteOutcomes == WriteOutcomes \cup {"makedirs_fails"}

\* NewsAPIFetcher._save_articles(articles)
api_save_articles(articles, file, w) ==
    IF w = "makedirs_fails"
    THEN [file |-> file, raised |-> TRUE]
    ELSE save_articles(articles, file, w)

\* lines 47-71: defaults, date range, params with page 1, empty result list
CallFetchFinancialNews(sv) ==
    /\ pc = "idle"
    /\ entry' = "fetch_financial_news"
    /\ pc' = "api_paging"
    /\ save' = sv
    /\ all_articles' = << >>
    /\ page' = 1
    /\ api_log' = << >>
    /\ data' = NoData
    /\ outcome' = "running"
    /\ UNCHANGED <<args, sources, fetch_content, max_workers, tasks, enrich,
                   sink, error, returned, wrote, req, date,
                   scrape, fetched>>

\* lines 75-108: one iteration of `while True`, given the response to the
\* request for params['page']
ApiFetchPage(resp) ==
    /\ pc = "api_paging"
    /\ LET requested == Append(api_log, <<"get", page>>)
           articles == ApiArticles(page, resp.n)
           merged == all_articles \o articles
       IN IF resp.kind = "RequestException"
          THEN \* lines 103-105: logged and re-raised
               /\ pc' = "done" /\ outcome' = "raised"
               /\ error' = RaisedBy(resp)
               /\ api_log' = requested
               /\ UNCHANGED <<all_articles, page, data>>
          ELSE IF resp.status # "ok"
          THEN \* line 84, then lines 106-108: logged and re-raised
               /\ pc' = "done" /\ outcome' = "raised"
               /\ error' = RaisedBy(resp)
               /\ api_log' = requested
               /\ data' = resp
               /\ UNCHANGED <<all_articles, page>>
          ELSE IF articles = << >>
          THEN /\ pc' = "api_fetched"
               /\ api_log' = requested
               /\ data' = resp
               /\ UNCHANGED <<all_articles, page, outcome, error>>
          ELSE IF LoopEnds(Len(merged), resp)
          THEN /\ pc' = "api_fetched"
               /\ all_articles' = merged
               /\ api_log' = requested
               /\ data' = resp
               /\ UNCHANGED <<page, outcome, error>>
          ELSE /\ all_articles' = merged
               /\ page' = NextPage(page)
               /\ api_log' = requested \o << <<"sleep", API_PAGE_DELAY>> >>
               /\ data' = resp
               /\ UNCHANGED <<pc, outcome, error>>
    /\ UNCHANGED <<entry, args, sources, fetch_content, save, max_workers, tasks,
                   enrich, sink, returned, wrote, req, date,
                   scrape, fetched>>

\* lines 110-115: save if asked, return
ApiSaveReturn ==
    /\ pc = "api_fetched"
    /\ pc' = "done"
    /\ IF save
       THEN \E w \in ApiWriteOutcomes :
               LET s == api_save_articles(all_articles, sink, w)
               IN /\ wrote' = w
                  /\ sink' = s.file
                  /\ IF s.raised
                     THEN /\ outcome' = "raised"
                          /\ error' = "IOError"
                          /\ UNCHANGED returned
                     ELSE /\ outcome' = "returned"
                          /\ returned' = all_articles
                          /\ UNCHANGED error
       ELSE /\ outcome' = "returned"
            /\ returned' = all_articles
            /\ UNCHANGED <<sink, error, wrote>>
    /\ UNCHANGED <<entry, args, sources, fetch_content, save, max_workers, tasks,
                   all_articles, enrich, apiVars, req, date, data,
                   scrape, fetched>>

----------------------------------------------------------------------------
(* _parse_date.  A date text is a sequence of one-character strings. *)

\* a string of decimal digits without its leading zeros
Significant(digits) ==
    IF \A i \in DOMAIN digits : digits[i] = "0" THEN << >>
    ELSE SubSeq(digits,
                CHOOSE i \in DOMAIN digits :
                    /\ digits[i] # "0"
                    /\ \A j \in 1..(i - 1) : digits[j] = "0",
                Len(digits))

\* int() of a string of decimal digits
IntOf(digits) ==
    LET RECURSIVE Value(_)
        Value(ds) ==
            IF ds = << >> THEN 0
            ELSE 10 * Value(SubSeq(ds, 1, Len(ds) - 1))
                 + (IndexOf(DigitChars, ds[Len(ds)]) - 1)
    IN Value(Significant(digits))

\* sys.get_int_max_str_digits(): the longest digit string int() converts
INT_MAX_STR_DIGITS == 4300

\* int(digits) raises ValueError: the string is empty, one of its
\* characters is a digit for str.isdigit only, or it holds more digits
\* (leading zeros counted) than the conversion limit
IntRaises(digits) ==
    \/ digits = << >>
    \/ \E i \in DOMAIN digits : ~IsDecimal(digits[i])
    \/ Len(digits) > INT_MAX_STR_DIGITS

\* ''.join(filter(str.isdigit, date_text))
JoinedDigits(text) == SelectSeq(text, IsDigit)

\* str(n) of a natural number, the empty string for 0
RECURSIVE DigitsOf(_)
DigitsOf(n) ==
    IF n = 0 THEN << >> ELSE Append(DigitsOf(n \div 10), DigitChars[(n % 10) + 1])

\* int(digits) > limit, decided on the digits: the integers of Python have
\* no upper limit
Exceeds(digits, limit) ==
    LET a == Significant(digits)
        b == DigitsOf(limit)
    IN \/ Len(a) > Len(b)
       \/ /\ Len(a) = Len(b)
          /\ \E i \in DOMAIN a :
                /\ IndexOf(DigitChars, a[i]) > IndexOf(DigitChars, b[i])
                /\ \A j \in 1..(i - 1) : a[j] = b[j]

W_ago == <<"a", "g", "o">>
W_minute == <<"m", "i", "n", "u", "t", "e">>
W_min == <<"m", "i", "n">>
W_hour == <<"h", "o", "u", "r">>
W_hr == <<"h", "r">>
W_day == <<"d", "a", "y">>
W_week == <<"w", "e", "e", "k">>
W_month == <<"m", "o", "n", "t", "h">>
W_today == <<"t", "o", "d", "a", "y">>
W_yesterday == <<"y", "e", "s", "t", "e", "r", "d", "a", "y">>

\* the branch of lines 184-201 taken: the first unit test that succeeds
DetectedUnit(text) ==
    IF Contains(text, W_minute) \/ Contains(text, W_min) THEN "minute"
    ELSE IF Contains(text, W_hour) \/ Contains(text, W_hr) THEN "hour"
    ELSE IF Contains(text, W_day) THEN "day"
    ELSE IF Contains(text, W_week) THEN "week"
    ELSE IF Contains(text, W_month) THEN "month"
    ELSE "none"

\* timedelta(minutes=1), (hours=1), (days=1), (weeks=1), (days=30), in minutes
UnitMinutes(unit) ==
    CASE unit = "minute" -> 1
      [] unit = "hour"   -> 60
      [] unit = "day"    -> 24 * 60
      [] unit = "week"   -> 7 * 24 * 60
      [] unit = "month"  -> 30 * 24 * 60
      [] OTHER           -> 0

\* The ISO strings _parse_date returns, by what they denote: the reference
\* time minus so many minutes, or midnight of a calendar date.
NowMinus(minutes) ==
    [kind |-> "now_minus", minutes |-> minutes, year |-> 0, month |-> 0, day |-> 0]
Midnight(y, m, d) ==
    [kind |-> "date", minutes |-> 0, year |-> y, month |-> m, day |-> d]

IsLeapYear(y) == (y % 4 = 0 /\ y % 100 # 0) \/ y % 400 = 0

DaysInMonth(y, m) ==
    IF m = 2 THEN (IF IsLeapYear(y) THEN 29 ELSE 28)
    ELSE IF m \in {4, 6, 9, 11} THEN 30 ELSE 31

\* datetime.now(), to the minute
Now(y, mo, d, h, mi) ==
    [year |-> y, month |-> mo, day |-> d, hour |-> h, minute |-> mi]

\* days from 0001-01-01 to the first day of year y
DaysBeforeYear(y) ==
    (y - 1) * 365 + (y - 1) \div 4 - (y - 1) \div 100 + (y - 1) \div 400

\* days from the first day of year y to the first day of its month m
RECURSIVE DaysBeforeMonth(_, _)
DaysBeforeMonth(y, m) ==
    IF m = 1 THEN 0 ELSE DaysBeforeMonth(y, m - 1) + DaysInMonth(y, m - 1)

\* whole minutes between datetime.min (0001-01-01T00:00) and the reference
\* time: now - timedelta(minutes=n) raises OverflowError exactly for n above
MinutesSinceMin(now) ==
    (DaysBeforeYear(now.year) + DaysBeforeMonth(now.year, now.month)
       + now.day - 1) * (24 * 60)
    + now.hour * 60 + now.minute

\* an exception raised inside the try block of _parse_date
Raise(exc) ==
    [kind |-> exc, minutes |-> 0, year |-> 0, month |-> 0, day |-> 0]
IsException(r) == r.kind \in {"ValueError", "OverflowError"}

\* lines 227-229: `except Exception` logs a warning and returns now
Handled_Reraise(r) == r

Handled(r) == IF IsException(r) THEN NowMinus(0) ELSE r

\* datetime.now() - timedelta(<unit>=n): OverflowError below datetime.min
NowMinusUnits(n, unit, now) ==
    IF n > MinutesSinceMin(now) \div UnitMinutes(unit)
    THEN Raise("OverflowError")
    ELSE NowMinus(n * UnitMinutes(unit))

\* lines 183-202, for a text holding "ago"
RelativeDate(text, now) ==
    LET unit == DetectedUnit(text)
        digits == JoinedDigits(text)
    IN IF unit = "none" THEN NowMinus(0)
       ELSE IF IntRaises(digits)
       THEN Raise("ValueError")    \* int('') or int('2\u00b2')
       ELSE IF Exceeds(digits, MinutesSinceMin(now))
       THEN Raise("OverflowError") \* of timedelta(), or of the subtraction
       ELSE NowMinusUnits(IntOf(digits), unit, now)

\* month names of the C locale, lower case
MonthAbbr == <<
    <<"j", "a", "n">>, <<"f", "e", "b">>, <<"m", "a", "r">>, <<"a", "p", "r">>, 
    <<"m", "a", "y">>, <<"j", "u", "n">>, <<"j", "u", "l">>, <<"a", "u", "g">>, 
    <<"s", "e", "p">>, <<"o", "c", "t">>, <<"n", "o", "v">>, <<"d", "e", "c">>>>
MonthFull == <<
    <<"j", "a", "n", "u", "a", "r", "y">>, 
    <<"f", "e", "b", "r", "u", "a", "r", "y">>, 
    <<"m", "a", "r", "c", "h">>, 
    <<"a", "p", "r", "i", "l">>, 
    <<"m", "a", "y">>, 
    <<"j", "u", "n", "e">>, 
    <<"j", "u", "l", "y">>, 
    <<"a", "u", "g", "u", "s", "t">>, 
    <<"s", "e", "p", "t", "e", "m", "b", "e", "r">>, 
    <<"o", "c", "t", "o", "b", "e", "r">>, 
    <<"n", "o", "v", "e", "m", "b", "e", "r">>, 
    <<"d", "e", "c", "e", "m", "b", "e", "r">>>>

\* the list of line 211-215; a format is the sequence of its directives and
\* literal characters
FORMATS ==
    << <<"%Y", "-", "%m", "-", "%d">>,
       <<"%b", " ", "%d", ",", " ", "%Y">>,
       <<"%d", " ", "%b", " ", "%Y">>,
       <<"%B", " ", "%d", ",", " ", "%Y">>,
       <<"%d", " ", "%B", " ", "%Y">>,
       <<"%m", "/", "%d", "/", "%Y">>,
       <<"%d", "/", "%m", "/", "%Y">>,
       <<"%Y", "/", "%m", "/", "%d">>,
       <<"%m", "-", "%d", "-", "%Y">>,
       <<"%d", "-", "%m", "-", "%Y">>,
       <<"%b", " ", "%d">>,
       <<"%d", " ", "%b">>,
       <<"%B", " ", "%d">>,
       <<"%d", " ", "%B">> >>

\* text[i], or "" behind the end of the text
At(text, i) == IF i \in DOMAIN text THEN text[i] ELSE ""

NonZeroDigits == {"1", "2", "3", "4", "5", "6", "7", "8", "9"}

\* the length of the run of white space that starts at pos
SpaceRun(text, pos) ==
    CHOOSE n \in 0..Len(text) :
        /\ \A k \in 0..(n - 1) : At(text, pos + k) \in Whitespace
        /\ At(text, pos + n) \notin Whitespace

\* the lengths of the names that stand at pos, upper or lower case
NameLengths(names, text, pos) ==
    LET hits == SelectSeq(names, LAMBDA name :
                    /\ pos + Len(name) - 1 <= Len(text)
                    /\ Lower(SubSeq(text, pos, pos + Len(name) - 1)) = name)
    IN [i \in DOMAIN hits |-> Len(hits[i])]

\* One directive or literal of a format at position pos of the text: the
\* lengths its regular expression can match there, in the order the
\* expression tries them.  _strptime compiles
\*   %Y to \d\d\d\d,   %m to 1[0-2]|0[1-9]|[1-9],
\*   %d to 3[0-1]|[1-2]\d|0[1-9]|[1-9]| [1-9],
\*   %b and %B to the month names (no name starts another one),
\*   white space of the format to \s+, any other character to itself,
\* and matches without regard to case.
Candidates(elem, text, pos) ==
    LET c0 == At(text, pos)
        c1 == At(text, pos + 1)
        If(cond, len) == IF cond THEN <<len>> ELSE << >>
    IN CASE elem = "%Y" ->
              If(\A k \in 0..3 : IsDecimal(At(text, pos + k)), 4)
         [] elem = "%m" ->
              If(\/ c0 = "1" /\ c1 \in {"0", "1", "2"}
                 \/ c0 = "0" /\ c1 \in NonZeroDigits, 2)
              \o If(c0 \in NonZeroDigits, 1)
         [] elem = "%d" ->
              If(\/ c0 = "3" /\ c1 \in {"0", "1"}
                 \/ c0 \in {"1", "2"} /\ IsDecimal(c1)
                 \/ c0 = "0" /\ c1 \in NonZeroDigits, 2)
              \o If(c0 \in NonZeroDigits, 1)
              \o If(c0 = " " /\ c1 \in NonZeroDigits, 2)
         [] elem = "%b" -> NameLengths(MonthAbbr, text, pos)
         [] elem = "%B" -> NameLengths(MonthFull, text, pos)
         [] elem = " "  ->
              [i \in 1..SpaceRun(text, pos) |-> SpaceRun(text, pos) - i + 1]
         [] OTHER       -> If(c0 # "" /\ LowerChar(c0) = LowerChar(elem), 1)

Directives == {"%Y", "%m", "%d", "%b", "%B"}
NoMatch == [ok |-> FALSE, end |-> 0, found |-> [e \in Directives |-> << >>]]

\* format_regex.match(text): the elements of fmt from the k-th on are
\* matched from pos on, an element giving up a match for its next one when
\* the rest of the format fails behind it; `end` is the position behind the
\* match and `found` the text each directive matched
RECURSIVE MatchFrom(_, _, _, _), FirstOf(_, _, _, _, _)
MatchFrom(text, pos, fmt, k) ==
    IF k > Len(fmt)
    THEN [ok |-> TRUE, end |-> pos, found |-> [e \in Directives |-> << >>]]
    ELSE FirstOf(text, pos, fmt, k, Candidates(fmt[k], text, pos))
FirstOf(text, pos, fmt, k, lens) ==
    IF lens = << >> THEN NoMatch
    ELSE Only({IF rest.ok
               THEN IF fmt[k] \in Directives
                    THEN [rest EXCEPT !.found[fmt[k]] =
                                         SubSeq(text, pos, pos + Head(lens) - 1)]
                    ELSE rest
               ELSE FirstOf(text, pos, fmt, k, Tail(lens)) :
                 rest \in {MatchFrom(text, pos + Head(lens), fmt, k + 1)}})

\* int() of the text a numeric directive matched (%d may hold a blank)
FoundInt(chars) == IntOf(SelectSeq(chars, IsDecimal))

\* datetime.strptime(text, fmt): ok = FALSE stands for ValueError, raised
\* when the expression does not match, when text remains behind the match,
\* and when the fields are no date.  A field the format lacks defaults to
\* 1900 (year) or 1 (month, day).
strptime(text, fmt) ==
    Only({IF ~f.ok \/ f.end # Len(text) + 1
          THEN [ok |-> FALSE, year |-> 0, month |-> 0, day |-> 0]
          ELSE LET y == IF f.found["%Y"] # << >> THEN FoundInt(f.found["%Y"])
                        ELSE 1900
                   m == IF f.found["%m"] # << >> THEN FoundInt(f.found["%m"])
                        ELSE IF f.found["%b"] # << >>
                        THEN IndexOf(MonthAbbr, Lower(f.found["%b"]))
                        ELSE IF f.found["%B"] # << >>
                        THEN IndexOf(MonthFull, Lower(f.found["%B"]))
                        ELSE 1
                   d == IF f.found["%d"] # << >> THEN FoundInt(f.found["%d"])
                        ELSE 1
               IN IF y < 1 \/ d > DaysInMonth(y, m)
                  THEN [ok |-> FALSE, year |-> 0, month |-> 0, day |-> 0]
                  ELSE [ok |-> TRUE, year |-> y, month |-> m, day |-> d] :
            f \in {MatchFrom(text, 1, fmt, 1)}})

\* lines 211-226: the formats from the k-th on, in order
RECURSIVE TryFormats(_, _, _)
TryFormats(text, k, now) ==
    IF k > Len(FORMATS) THEN NowMinus(0)
    ELSE LET parsed == strptime(Strip(text), FORMATS[k])
         IN IF ~parsed.ok THEN TryFormats(text, k + 1, now)
            ELSE IF parsed.year = 1900
            THEN Midnight(now.year, parsed.month, parsed.day)
            ELSE Midnight(parsed.year, parsed.month, parsed.day)

\* lines 180-226, the try block: a result, or the exception raised in it
parse_date_try(date_text, now) ==
    LET text == Strip(Lower(date_text))
    IN IF Contains(text, W_ago) THEN RelativeDate(text, now)
       ELSE IF Contains(text, W_today) THEN NowMinus(0)
       ELSE IF Contains(text, W_yesterday) THEN NowMinus(24 * 60)
       ELSE TryFormats(text, 1, now)

\* _parse_date(date_text) at the reference time now
parse_date(date_text, now) == Handled(parse_date_try(date_text, now))

\* Inputs of SpecDate: the reference times
Nows == {Now(2024, 6, 15, 12, 34), Now(2025, 1, 1, 0, 0)}

Blank == <<" ">>
Numerals == {<<"1">>, <<"2">>, <<"3", "0">>}
UnitNames ==
    {<<"m", "i", "n", "u", "t", "e", "s">>,
     <<"m", "i", "n">>,
     <<"h", "o", "u", "r", "s">>,
     <<"h", "r">>,
     <<"d", "a", "y", "s">>,
     <<"w", "e", "e", "k", "s">>,
     <<"m", "o", "n", "t", "h", "s">>,
     <<"y", "e", "a", "r", "s">>}
MainUnitNames ==
    {<<"m", "i", "n", "u", "t", "e", "s">>,
     <<"h", "o", "u", "r", "s">>,
     <<"d", "a", "y", "s">>,
     <<"w", "e", "e", "k", "s">>}

\* "2 hours ago"
RelativeSimple ==
    {n \o Blank \o u \o Blank \o W_ago : n \in Numerals, u \in UnitNames}
\* "1 hours 30 minutes ago"
RelativeTwoParts ==
    {n1 \o Blank \o u1 \o Blank \o n2 \o Blank \o u2 \o Blank \o W_ago :
        n1 \in Numerals, u1 \in MainUnitNames,
        n2 \in Numerals, u2 \in MainUnitNames}
\* "2 days ago, 10:30"
RelativeWithClock == {t \o <<",", " ", "1", "0", ":", "3", "0">> : t \in RelativeSimple}

OtherTexts ==
    {<<"t", "o", "d", "a", "y">>,
     <<"Y", "e", "s", "t", "e", "r", "d", "a", "y">>,
     <<"n", "o", "t", " ", "a", " ", "d", "a", "t", "e">>,
     << >>,
     <<"a", "n", " ", "h", "o", "u", "r", " ", "a", "g", "o">>,
     <<"m", "o", "m", "e", "n", "t", "s", " ", "a", "g", "o">>,
     <<"2", " ", "H", "o", "u", "r", "s", " ", "A", "g", "o">>,
     <<" ", " ", "3", " ", "d", "a", "y", "s", " ", "a", "g", "o", " ">>}

YearTexts == {<<"1", "9", "0", "0">>, <<"2", "0", "2", "3">>, <<"2", "0", "2", "4">>}
MonthOrDayTexts == {<<"0", "1">>, <<"3">>, <<"1", "3">>, <<"2", "9">>}
DayTexts == {<<"5">>, <<"2", "9">>, <<"3", "1">>}
MonthWords == {<<"J", "a", "n">>,
     <<"f", "e", "b">>,
     <<"m", "a", "r", "c", "h">>,
     <<"m", "a", "y">>}

\* "2023-03-05", "2023/03/05"
YearFirst ==
    {y \o sep \o m \o sep \o d :
        y \in YearTexts, m \in MonthOrDayTexts, d \in MonthOrDayTexts,
        sep \in {<<"-">>, <<"/">>}}
\* "03/05/2023", "13-05-2023"
YearLast ==
    {a \o sep \o b \o sep \o y :
        a \in MonthOrDayTexts, b \in MonthOrDayTexts, y \in YearTexts,
        sep \in {<<"-">>, <<"/">>}}
\* "Jan 5, 2023", "5 Jan 2023"
NamedWithYear ==
    {w \o Blank \o d \o <<",", " ">> \o y :
        w \in MonthWords, d \in DayTexts, y \in YearTexts}
    \cup {d \o Blank \o w \o Blank \o y :
        w \in MonthWords, d \in DayTexts, y \in YearTexts}
\* "Jan 5", "5 Jan"
NamedWithoutYear ==
    {w \o Blank \o d : w \in MonthWords, d \in DayTexts}
    \cup {d \o Blank \o w : w \in MonthWords, d \in DayTexts}

\* white space other than the blank, a day written with a blank, a digit
\* int() does not read, and numbers that reach back to the year 1
EdgeTexts ==
    {<<"\t", "2", "0", "2", "3", "-", "0", "3", "-", "0", "5", "\n">>,
     <<"2", "0", "2", "3", "-", "0", "3", "-", " ", "5">>,
     <<"J", "a", "n", "\t", "5", ",", " ", "2", "0", "2", "3">>,
     <<"2", "²", " ", "h", "o", "u", "r", "s", " ", "a", "g", "o">>,
     <<"1", "0", "6", "4", "2", "3", "4", "1", "9", "5", " ", "m", "i", "n", "u", "t", "e", "s", " ", "a", "g", "o">>,
     <<"7", "3", "9", "0", "5", "2", " ", "d", "a", "y", "s", " ", "a", "g", "o">>,
     [i \in 1..(INT_MAX_STR_DIGITS + 1) |-> "1"]
         \o <<" ", "d", "a", "y", "s", " ", "a", "g", "o">>}

DateTexts ==
    RelativeSimple \cup RelativeTwoParts \cup RelativeWithClock \cup OtherTexts
    \cup EdgeTexts
    \cup YearFirst \cup YearLast \cup NamedWithYear \cup NamedWithoutYear

IdleDate ==
    [state |-> "idle", text |-> << >>, now |-> Now(1, 1, 1, 0, 0),
     result |-> NowMinus(0)]

\* _parse_date(date_text) is called while datetime.now() is `now`
CallParseDate(date_text, now) ==
    /\ date.state = "idle"
    /\ LET r == parse_date(date_text, now)
       IN date' = [state |-> IF IsException(r) THEN "raised" ELSE "done",
                   text |-> date_text, now |-> now, result |-> r]
    /\ UNCHANGED <<entry, pc, args, sources, fetch_content, save, max_workers,
                   tasks, all_articles, enrich, sink, outcome, error, returned,
                   wrote, page, api_log, req, data,
                   scrape, fetched>>

----------------------------------------------------------------------------
(* _scrape_source, node by node.  Titles, hrefs and URLs are sequences of
   one-character strings. *)

\* most candidate nodes on one page
MaxNodes == 3

S_http == <<"h", "t", "t", "p", ":", "/", "/">>
S_https == <<"h", "t", "t", "p", "s", ":", "/", "/">>

\* urllib.parse.scheme_chars
IsSchemeChar(c) == IsLetter(c) \/ IsDecimal(c) \/ c \in {"+", "-", "."}

\* urllib.parse.uses_relative, uses_netloc and uses_params
uses_relative ==
    {<< >>, <<"f", "t", "p">>, <<"h", "t", "t", "p">>,
     <<"g", "o", "p", "h", "e", "r">>, <<"n", "n", "t", "p">>, <<"i", "m", "a", "p">>,
     <<"w", "a", "i", "s">>, <<"f", "i", "l", "e">>, <<"h", "t", "t", "p", "s">>,
     <<"s", "h", "t", "t", "p">>, <<"m", "m", "s">>, <<"p", "r", "o", "s", "p", "e", "r", "o">>,
     <<"r", "t", "s", "p">>, <<"r", "t", "s", "p", "s">>, <<"r", "t", "s", "p", "u">>,
     <<"s", "f", "t", "p">>, <<"s", "v", "n">>, <<"s", "v", "n", "+", "s", "s", "h">>,
     <<"w", "s">>, <<"w", "s", "s">>}
uses_netloc ==
    {<< >>, <<"f", "t", "p">>, <<"h", "t", "t", "p">>,
     <<"g", "o", "p", "h", "e", "r">>, <<"n", "n", "t", "p">>, <<"t", "e", "l", "n", "e", "t">>,
     <<"i", "m", "a", "p">>, <<"w", "a", "i", "s">>, <<"f", "i", "l", "e">>,
     <<"m", "m", "s">>, <<"h", "t", "t", "p", "s">>, <<"s", "h", "t", "t", "p">>,
     <<"s", "n", "e", "w", "s">>, <<"p", "r", "o", "s", "p", "e", "r", "o">>, <<"r", "t", "s", "p">>,
     <<"r", "t", "s", "p", "s">>, <<"r", "t", "s", "p", "u">>, <<"r", "s", "y", "n", "c">>,
     <<"s", "v", "n">>, <<"s", "v", "n", "+", "s", "s", "h">>, <<"s", "f", "t", "p">>,
     <<"n", "f", "s">>, <<"g", "i", "t">>, <<"g", "i", "t", "+", "s", "s", "h">>,
     <<"w", "s">>, <<"w", "s", "s">>}
uses_params ==
    {<< >>, <<"f", "t", "p">>, <<"h", "d", "l">>,
     <<"p", "r", "o", "s", "p", "e", "r", "o">>, <<"h", "t", "t", "p">>, <<"i", "m", "a", "p">>,
     <<"h", "t", "t", "p", "s">>, <<"s", "h", "t", "t", "p">>, <<"r", "t", "s", "p">>,
     <<"r", "t", "s", "p", "s">>, <<"r", "t", "s", "p", "u">>, <<"s", "i", "p">>,
     <<"s", "i", "p", "s">>, <<"m", "m", "s">>, <<"s", "f", "t", "p">>,
     <<"t", "e", "l">>}

\* urllib.parse._WHATWG_C0_CONTROL_OR_SPACE: U+0000 to U+0020
C0ControlOrSpace ==
    {"U+0000", "U+0001", "U+0002", "U+0003", "U+0004", "U+0005", "U+0006", "U+0007",
     "U+0008", "\t", "\n", "U+000B", "\f", "\r", "U+000E", "U+000F",
     "U+0010", "U+0011", "U+0012", "U+0013", "U+0014", "U+0015", "U+0016", "U+0017",
     "U+0018", "U+0019", "U+001A", "U+001B", "U+001C", "U+001D", "U+001E", "U+001F",
     " "}
\* urllib.parse._UNSAFE_URL_BYTES_TO_REMOVE
UnsafeUrlBytes == {"\t", "\r", "\n"}

\* text.lstrip(chars) and text.strip(chars)
LStripChars(text, chars) ==
    IF \A i \in DOMAIN text : text[i] \in chars THEN << >>
    ELSE SubSeq(text,
                CHOOSE i \in DOMAIN text :
                    /\ text[i] \notin chars
                    /\ \A j \in 1..(i - 1) : text[j] \in chars,
                Len(text))
StripChars(text, chars) ==
    IF \A i \in DOMAIN text : text[i] \in chars THEN << >>
    ELSE SubSeq(LStripChars(text, chars), 1,
                Len(LStripChars(text, chars)) - Len(text)
                + CHOOSE i \in DOMAIN text :
                      /\ text[i] \notin chars
                      /\ \A j \in (i + 1)..Len(text) : text[j] \in chars)

\* the loop of urlsplit over _UNSAFE_URL_BYTES_TO_REMOVE
RemoveUnsafe(text) == SelectSeq(text, LAMBDA c : c \notin UnsafeUrlBytes)

\* urlsplit, first step: the scheme, when the text before the first ':' is a
\* letter followed by scheme characters, and what follows it
SplitScheme(url, default) ==
    LET colon == Find(url, ":", 1)
    IN IF /\ colon > 1
          /\ IsLetter(url[1])
          /\ \A i \in 1..(colon - 1) : IsSchemeChar(url[i])
       THEN [scheme |-> Lower(SubSeq(url, 1, colon - 1)),
             rest |-> SubSeq(url, colon + 1, Len(url))]
       ELSE [scheme |-> default, rest |-> url]

\* urlsplit, second step: after "//" the netloc runs up to the first of / ? #
SplitNetloc(rest) ==
    LET ends == {i \in 3..Len(rest) : rest[i] \in {"/", "?", "#"}}
    IN IF ~StartsWith(rest, <<"/", "/">>)
       THEN [netloc |-> << >>, tail |-> rest, slashes |-> FALSE]
       ELSE IF ends = {}
       THEN [netloc |-> SubSeq(rest, 3, Len(rest)), tail |-> << >>,
             slashes |-> TRUE]
       ELSE Only({[netloc |-> SubSeq(rest, 3, stop - 1),
                   tail |-> SubSeq(rest, stop, Len(rest)),
                   slashes |-> TRUE] :
                     stop \in {CHOOSE i \in ends : \A j \in ends : i <= j}})

HexChars ==
    {DigitChars[i] : i \in DOMAIN DigitChars}
    \cup {"a", "b", "c", "d", "e", "f", "A", "B", "C", "D", "E", "F"}

\* ipaddress.IPv4Address._parse_octet does not raise
IsOctet(octet) ==
    /\ octet # << >>
    /\ \A i \in DOMAIN octet : IsDecimal(octet[i])
    /\ Len(octet) <= 3
    /\ octet = <<"0">> \/ Head(octet) # "0"
    /\ IntOf(octet) <= 255

\* ipaddress.IPv4Address(text) does not raise
IsIPv4(text) ==
    /\ ~InSeq(text, "/")
    /\ text # << >>
    /\ LET octets == Split(text, ".")
       IN Len(octets) = 4 /\ \A i \in DOMAIN octets : IsOctet(octets[i])

\* ipaddress.IPv6Address._parse_hextet does not raise
IsHextet(part) ==
    /\ part # << >>
    /\ \A i \in DOMAIN part : part[i] \in HexChars
    /\ Len(part) <= 4

\* ipaddress.IPv6Address._ip_int_from_string, once the text is split at its
\* colons and an IPv4 suffix is replaced by its two hextets: `skips` are
\* the empty parts between the first and the last one
IsIPv6Parts(parts, skips) ==
    IF skips # {}
    THEN LET n == Len(parts)
             skip == CHOOSE i \in skips : TRUE
             parts_hi == IF parts[1] = << >> THEN skip - 2 ELSE skip - 1
             parts_lo == IF parts[n] = << >> THEN n - skip - 1 ELSE n - skip
         IN /\ Cardinality(skips) = 1
            /\ parts[1] = << >> => parts_hi = 0
            /\ parts[n] = << >> => parts_lo = 0
            /\ 8 - (parts_hi + parts_lo) >= 1
            /\ \A i \in 1..parts_hi : IsHextet(parts[i])
            /\ \A i \in (n - parts_lo + 1)..n : IsHextet(parts[i])
    ELSE /\ Len(parts) = 8
         /\ \A i \in DOMAIN parts : IsHextet(parts[i])

\* ipaddress.IPv6Address._ip_int_from_string(text) does not raise
IsIPv6Address(text) ==
    /\ text # << >>
    /\ LET split == Split(text, ":")
           last == split[Len(split)]
           parts == IF InSeq(last, ".")
                    THEN SubSeq(split, 1, Len(split) - 1) \o <<<<"0">>, <<"0">>>>
                    ELSE split
       IN /\ Len(split) >= 3
          /\ InSeq(last, ".") => IsIPv4(last)
          /\ Len(parts) <= 9
          /\ IsIPv6Parts(parts, {i \in 2..(Len(parts) - 1) : parts[i] = << >>})

\* ipaddress.IPv6Address(host) does not raise: no '/', a scope id after the
\* first '%' that is not empty and holds no '%', and an address before it
IsIPv6(host) ==
    LET pct == Find(host, "%", 1)
    IN /\ ~InSeq(host, "/")
       /\ IF pct = 0 THEN IsIPv6Address(host)
          ELSE /\ pct < Len(host)
               /\ \A i \in (pct + 1)..Len(host) : host[i] # "%"
               /\ IsIPv6Address(SubSeq(host, 1, pct - 1))

\* re.match(r"\Av[a-fA-F0-9]+\..+\Z", host)
IsIPvFuture(host) ==
    /\ StartsWith(host, <<"v">>)
    /\ \E dot \in 3..(Len(host) - 1) :
          /\ host[dot] = "."
          /\ \A i \in 2..(dot - 1) : host[i] \in HexChars
          /\ \A i \in (dot + 1)..Len(host) : host[i] # "\n"

\* netloc.partition('[')[2].partition(']')[0]
BracketedHost(netloc) ==
    LET open == Find(netloc, "[", 1)
        close == Find(netloc, "]", open + 1)
    IN SubSeq(netloc, open + 1, IF close = 0 THEN Len(netloc) ELSE close - 1)

\* urlsplit raises ValueError for the netloc: one square bracket without
\* the other ("Invalid IPv6 URL"), or a bracketed host that is neither an
\* IPv6 nor an IPvFuture address (_check_bracketed_host).  _checknetloc
\* raises for no character up to U+00FF.
NetlocRaises(netloc) ==
    \/ InSeq(netloc, "[") # InSeq(netloc, "]")
    \/ /\ InSeq(netloc, "[")
       /\ Only({IF StartsWith(host, <<"v">>) THEN ~IsIPvFuture(host)
                ELSE ~IsIPv6(host) :
                  host \in {BracketedHost(netloc)}})

\* urlsplit, third step: the fragment after the first '#'
SplitFragment(tail) ==
    LET hash == Find(tail, "#", 1)
    IN IF hash = 0 THEN [url |-> tail, fragment |-> << >>]
       ELSE [url |-> SubSeq(tail, 1, hash - 1),
             fragment |-> SubSeq(tail, hash + 1, Len(tail))]

\* urlsplit, last step: the query after the first '?'
SplitQuery(nofrag) ==
    LET mark == Find(nofrag, "?", 1)
    IN IF mark = 0 THEN [path |-> nofrag, query |-> << >>]
       ELSE [path |-> SubSeq(nofrag, 1, mark - 1),
             query |-> SubSeq(nofrag, mark + 1, Len(nofrag))]

\* the result of urlsplit from its parts
SplitResult(scheme, netloc, f, q) ==
    [raised |-> NetlocRaises(netloc),
     scheme |-> scheme, netloc |-> netloc, path |-> q.path,
     query |-> q.query, fragment |-> f.fragment]

SplitAfterNetloc(scheme, n) ==
    Only({Only({SplitResult(scheme, n.netloc, f, q) : q \in {SplitQuery(f.url)}}) :
             f \in {SplitFragment(n.tail)}})

\* urllib.parse.urlsplit(url, scheme=default): leading control characters
\* and blanks and every tab, carriage return and line feed are dropped, then
\* scheme, netloc, path, query and fragment are cut off in turn; ValueError
\* is raised as `raised`
urlsplit(url, default) ==
    Only({Only({SplitAfterNetloc(s.scheme, n) : n \in {SplitNetloc(s.rest)}}) :
             s \in {SplitScheme(RemoveUnsafe(LStripChars(url, C0ControlOrSpace)),
                                RemoveUnsafe(StripChars(default, C0ControlOrSpace)))}})

\* the last index of text holding c, 0 if there is none (str.rfind)
RFind(text, c) ==
    IF InSeq(text, c)
    THEN CHOOSE i \in DOMAIN text :
            text[i] = c /\ \A j \in (i + 1)..Len(text) : text[j] # c
    ELSE 0

\* urllib.parse._splitparams(path), for a path that holds a ';'
splitparams(path) ==
    LET semi == IF InSeq(path, "/") THEN Find(path, ";", RFind(path, "/"))
                ELSE Find(path, ";", 1)
    IN IF semi = 0 THEN [path |-> path, params |-> << >>]
       ELSE [path |-> SubSeq(path, 1, semi - 1),
             params |-> SubSeq(path, semi + 1, Len(path))]

\* urlparse once the url is split: the params are cut off the path
WithParams(split) ==
    IF ~split.raised /\ split.scheme \in uses_params /\ InSeq(split.path, ";")
    THEN Only({[raised |-> FALSE, scheme |-> split.scheme,
                netloc |-> split.netloc, path |-> p.path, params |-> p.params,
                query |-> split.query, fragment |-> split.fragment] :
                  p \in {splitparams(split.path)}})
    ELSE [raised |-> split.raised, scheme |-> split.scheme,
          netloc |-> split.netloc, path |-> split.path, params |-> << >>,
          query |-> split.query, fragment |-> split.fragment]

\* urllib.parse.urlparse(url, scheme=default)
urlparse(url, default) ==
    Only({WithParams(split) : split \in {urlsplit(url, default)}})

\* urllib.parse.urlunsplit
urlunsplit(scheme, netloc, path, query, fragment) ==
    LET withNetloc ==
            IF netloc # << >>
               \/ (scheme # << >> /\ scheme \in uses_netloc
                   /\ ~StartsWith(path, <<"/", "/">>))
            THEN <<"/", "/">> \o netloc
                 \o (IF path # << >> /\ Head(path) # "/" THEN <<"/">> ELSE << >>)
                 \o path
            ELSE path
        withScheme == IF scheme # << >> THEN scheme \o <<":">> \o withNetloc
                      ELSE withNetloc
        withQuery == IF query # << >> THEN withScheme \o <<"?">> \o query
                     ELSE withScheme
    IN IF fragment # << >> THEN withQuery \o <<"#">> \o fragment ELSE withQuery

\* urllib.parse.urlunparse
urlunparse(scheme, netloc, path, params, query, fragment) ==
    urlunsplit(scheme, netloc,
               IF params # << >> THEN path \o <<";">> \o params ELSE path,
               query, fragment)

\* the loop of urljoin that resolves "." and ".." segments
RECURSIVE ResolveDots(_, _)
ResolveDots(segments, resolved) ==
    IF segments = << >> THEN resolved
    ELSE LET seg == Head(segments)
         IN IF seg = <<".", ".">>
            THEN ResolveDots(Tail(segments),
                             IF resolved = << >> THEN resolved
                             ELSE SubSeq(resolved, 1, Len(resolved) - 1))
            ELSE IF seg = <<".">>
            THEN ResolveDots(Tail(segments), resolved)
            ELSE ResolveDots(Tail(segments), Append(resolved, seg))

\* urljoin: the path of the base without its last segment, followed by the
\* segments of the relative path, empty segments in the middle dropped
JoinedSegments(bpath, upath) ==
    Only({LET joined == (IF parts[Len(parts)] # << >>
                         THEN SubSeq(parts, 1, Len(parts) - 1) ELSE parts)
                        \o Split(upath, "/")
          IN IF Len(joined) <= 2 THEN joined
             ELSE <<joined[1]>>
                  \o SelectSeq(SubSeq(joined, 2, Len(joined) - 1),
                               LAMBDA seg : seg # << >>)
                  \o <<joined[Len(joined)]>> :
            parts \in {Split(bpath, "/")}})

\* urljoin: the resolved path of a relative reference
JoinedPath(bpath, upath) ==
    Only({LET resolved == ResolveDots(segments, << >>)
              closed == IF segments[Len(segments)] \in {<<".">>, <<".", ".">>}
                        THEN Append(resolved, << >>) ELSE resolved
          IN IF Join(closed, "/") = << >> THEN <<"/">> ELSE Join(closed, "/") :
            segments \in {IF upath # << >> /\ Head(upath) = "/"
                          THEN Split(upath, "/")
                          ELSE JoinedSegments(bpath, upath)}})

\* urljoin once base and url are parsed
JoinParsed(url, b, u) ==
    IF b.raised \/ u.raised THEN [raised |-> TRUE, url |-> << >>]
    ELSE IF u.scheme # b.scheme \/ u.scheme \notin uses_relative
    THEN [raised |-> FALSE, url |-> url]
    ELSE IF u.scheme \in uses_netloc /\ u.netloc # << >>
    THEN [raised |-> FALSE,
          url |-> urlunparse(u.scheme, u.netloc, u.path, u.params, u.query,
                             u.fragment)]
    ELSE LET netloc == IF u.scheme \in uses_netloc THEN b.netloc ELSE u.netloc
         IN IF u.path = << >> /\ u.params = << >>
            THEN [raised |-> FALSE,
                  url |-> urlunparse(u.scheme, netloc, b.path, b.params,
                                     IF u.query = << >> THEN b.query
                                     ELSE u.query,
                                     u.fragment)]
            ELSE [raised |-> FALSE,
                  url |-> urlunparse(u.scheme, netloc,
                                     JoinedPath(b.path, u.path), u.params,
                                     u.query, u.fragment)]

\* urllib.parse.urljoin(base, url): the joined URL, or ValueError
urljoin(base, url) ==
    IF base = << >> THEN [raised |-> FALSE, url |-> url]
    ELSE IF url = << >> THEN [raised |-> FALSE, url |-> base]
    ELSE Only({Only({JoinParsed(url, b, u) : u \in {urlparse(url, b.scheme)}}) :
                  b \in {urlparse(base, << >>)}})

\* SOURCES[sid]['url'] as characters
SourceUrlText(sid) ==
    CASE sid = "yahoo_finance" ->
           <<"h", "t", "t", "p", "s", ":", "/", "/", "f", "i", "n", "a", "n", "c", "e", ".", "y", "a", "h", "o", "o", ".", "c", "o", "m", "/", "n", "e", "w", "s", "/">>
      [] sid = "cnbc" ->
           <<"h", "t", "t", "p", "s", ":", "/", "/", "w", "w", "w", ".", "c", "n", "b", "c", ".", "c", "o", "m", "/", "w", "o", "r", "l", "d", "/", "?", "r", "e", "g", "i", "o", "n", "=", "w", "o", "r", "l", "d">>
      [] sid = "seeking_alpha" ->
           <<"h", "t", "t", "p", "s", ":", "/", "/", "s", "e", "e", "k", "i", "n", "g", "a", "l", "p", "h", "a", ".", "c", "o", "m", "/", "m", "a", "r", "k", "e", "t", "-", "n", "e", "w", "s">>
      [] sid = "finviz" ->
           <<"h", "t", "t", "p", "s", ":", "/", "/", "f", "i", "n", "v", "i", "z", ".", "c", "o", "m", "/", "n", "e", "w", "s", ".", "a", "s", "h", "x">>
      [] sid = "market_watch_latest" ->
           <<"h", "t", "t", "p", "s", ":", "/", "/", "w", "w", "w", ".", "m", "a", "r", "k", "e", "t", "w", "a", "t", "c", "h", ".", "c", "o", "m", "/", "l", "a", "t", "e", "s", "t", "-", "n", "e", "w", "s", "?", "m", "o", "d", "=", "t", "o", "p", "_", "n", "a", "v">>
      [] sid = "bloomberg" ->
           <<"h", "t", "t", "p", "s", ":", "/", "/", "w", "w", "w", ".", "b", "l", "o", "o", "m", "b", "e", "r", "g", ".", "c", "o", "m", "/", "m", "a", "r", "k", "e", "t", "s">>
      [] sid = "investing_analysis" ->
           <<"h", "t", "t", "p", "s", ":", "/", "/", "w", "w", "w", ".", "i", "n", "v", "e", "s", "t", "i", "n", "g", ".", "c", "o", "m", "/", "a", "n", "a", "l", "y", "s", "i", "s", "/", "m", "o", "s", "t", "-", "p", "o", "p", "u", "l", "a", "r", "-", "a", "n", "a", "l", "y", "s", "i", "s">>
      [] sid = "zacks" ->
           <<"h", "t", "t", "p", "s", ":", "/", "/", "w", "w", "w", ".", "z", "a", "c", "k", "s", ".", "c", "o", "m", "/", "s", "t", "o", "c", "k", "-", "m", "a", "r", "k", "e", "t", "-", "t", "o", "d", "a", "y">>

\* `if source_config['summary_selector']`: the one source whose
\* summary_selector is None has no summary looked for
HasSummarySelector(sid) == sid # "finviz"

\* the sources whose pages SpecExtract extracts from
ExtractSources == {"cnbc", "finviz", "yahoo_finance"}
\* datetime.now() while SpecExtract runs
ExtractNow == Now(2024, 6, 15, 12, 34)

\* A candidate node (an element matched by article_selector), by what the
\* sub-selectors find in it: has_title = title_selector matches, title = the
\* text of that element; link = "absent" when link_selector matches nothing,
\* "nohref" when the element has no href, "href" when it has one; has_summary
\* / summary and has_date / date_text likewise.
GoodNode ==
    [has_title |-> TRUE, title |-> <<" ", "F", "e", "d", " ">>,
     link |-> "href", href |-> <<"/", "s", "t", "o", "r", "y", "/", "1", "2", "3">>,
     has_summary |-> FALSE, summary |-> << >>,
     has_date |-> FALSE, date_text |-> << >>]

\* texts of a title element
TitleTexts == {<<" ", " ">>}
\* values of an href attribute
Hrefs ==
    {<< >>,
     <<"h", "t", "t", "p", "s", ":", "/", "/", "x", ".", "e", "x", "a", "m", "p", "l", "e", "/", "a">>,
     <<"m", "a", "i", "l", "t", "o", ":", "a", "@", "b", ".", "c">>,
     <<"/", "/", "[", "b", "a", "d">>}

\* the candidate nodes of the model: the good node, and nodes that differ
\* from it in one part
CandidateNodes ==
    {GoodNode}
    \cup {[GoodNode EXCEPT !.has_title = FALSE, !.title = << >>]}
    \cup {[GoodNode EXCEPT !.title = t] : t \in TitleTexts}
    \cup {[GoodNode EXCEPT !.link = l, !.href = << >>] : l \in {"absent", "nohref"}}
    \cup {[GoodNode EXCEPT !.href = h] : h \in Hrefs}
    \cup {[GoodNode EXCEPT !.has_summary = TRUE, !.summary = <<" ", "R", "a", "t", "e", "s", " ">>,
                           !.has_date = TRUE, !.date_text = <<"y", "e", "s", "t", "e", "r", "d", "a", "y">>]}

\* A source whose title_selector and link_selector are the same selector
\* gets the same element from both select_one calls: the title is found
\* exactly when the link element is. Where the link selector is the title
\* selector narrowed to <a> ('.title' and 'a.title'), a node in which the
\* link element is found has a title element.
Realizable(sid, node) ==
    /\ sid \in {"seeking_alpha", "finviz", "zacks"}
          => (node.has_title <=> node.link # "absent")
    /\ sid = "investing_analysis"
          => (node.link # "absent" => node.has_title)

\* soup.select(article_selector): the candidate nodes in document order
Documents == UNION {[1..n -> CandidateNodes] : n \in 0..MaxNodes}

\* Lines 247-291, the body of the loop for one node: "stub" with the dict
\* appended, "skip" for a `continue`, "error" for an exception caught at
\* line 290: the ValueError of urljoin (line 262) or the selector error of
\* select_one (line 275).
ParseArticle(sid, node) ==
    LET title == Strip(node.title)
        link == node.href
        absolute == StartsWith(link, S_http) \/ StartsWith(link, S_https)
        joined == IF absolute THEN [raised |-> FALSE, url |-> link]
                  ELSE urljoin(SourceUrlText(sid), link)
        summary == IF HasSummarySelector(sid) /\ node.has_summary
                   THEN Strip(node.summary)
                   ELSE << >>
        published_at == IF node.has_date
                        THEN parse_date(Strip(node.date_text), ExtractNow)
                        ELSE NowMinus(0)
    IN IF ~node.has_title THEN [kind |-> "skip"]
       ELSE IF node.link # "href" THEN [kind |-> "skip"]
       ELSE IF joined.raised THEN [kind |-> "error"]
       ELSE IF DateSelectorRaises(sid) THEN [kind |-> "error"]
       ELSE [kind |-> "stub",
             stub |-> [source |-> sid, title |-> title, description |-> summary,
                       url |-> joined.url, publishedAt |-> published_at,
                       content |-> NoContent]]

\* lines 246-291 with a loop that stops at the first node it cannot use
RECURSIVE ScrapeLoop_StopAtBadNode(_, _, _)
ScrapeLoop_StopAtBadNode(sid, nodes, articles) ==
    IF nodes = << >> THEN articles
    ELSE LET r == ParseArticle(sid, Head(nodes))
         IN IF r.kind = "stub"
            THEN ScrapeLoop_StopAtBadNode(sid, Tail(nodes), Append(articles, r.stub))
            ELSE articles

\* lines 246-291: `for article in article_elements`, appending to `articles`
RECURSIVE ScrapeLoop(_, _, _)
ScrapeLoop(sid, nodes, articles) ==
    IF nodes = << >> THEN articles
    ELSE LET r == ParseArticle(sid, Head(nodes))
         IN ScrapeLoop(sid, Tail(nodes),
                       IF r.kind = "stub" THEN Append(articles, r.stub)
                       ELSE articles)

IdleScrape == [state |-> "idle", sid |-> "", nodes |-> << >>, articles |-> << >>]

\* _scrape_source(sid, SOURCES[sid]) from line 241 on, for a page whose
\* candidate nodes are `nodes`
CallScrapeSource(sid, nodes) ==
    /\ scrape.state = "idle"
    /\ scrape' = [state |-> "done", sid |-> sid, nodes |-> nodes,
                  articles |-> ScrapeLoop(sid, nodes, << >>)]
    /\ UNCHANGED <<entry, pc, args, sources, fetch_content, save, max_workers,
                   tasks, all_articles, enrich, sink, outcome, error, returned,
                   wrote, page, api_log, req, date, data, fetched>>

----------------------------------------------------------------------------
(* fetch_article_content on its own *)

T_lead == <<"L", "e", "a", "d">>
T_para == <<" ", "F", "i", "r", "s", "t", " ", "p", "a", "r", "a", ".", " ">>

\* the pages SpecEnrich parses
EnrichDocs ==
    ArticleDocs
    \cup {BrokenDoc}
    \cup {Doc(<<Body(sel, text)>>, paras) :
             sel \in {"article", "main"},
             text \in {T_body, T_blank, << >>},
             paras \in {<< >>, <<T_para>>}}
    \cup {Doc(<<Body(".story-body", T_lead), Body("article", T_body)>>, <<T_para>>),
          Doc(<<Body("main", T_lead), Body(".story-body", T_body)>>, <<T_para>>),
          Doc(<<Body("article", T_blank), Body("article", T_body)>>, << >>)}
    \cup {Doc(<< >>, paras) :
             paras \in {<<T_para>>, <<T_blank>>, <<T_blank, << >> >>,
                        <<T_para, T_blank, T_lead>>}}

\* the stubs SpecEnrich enriches: with or without a url, content not yet set
\* or set by an earlier call
EnrichArticles ==
    {[Stub("cnbc", url, Jan) EXCEPT !.content = c] :
        url \in {"", None, "https://a.example/1"},
        c \in {NoContent, T_lead}}

IdleFetched ==
    [state |-> "idle", article |-> Stub("", "", Jan), gets |-> 0,
     html |-> None, doc |-> Doc(<< >>, << >>), result |-> Stub("", "", Jan)]

\* fetch_article_content(article) is called and returns; html is what
\* _make_request did, gets the number of GETs it issued
CallFetchArticleContent(article, outs, doc) ==
    /\ fetched.state = "idle"
    /\ LET html == make_request(outs)
           result == fetch_article_content(article, outs, doc)
       IN fetched' = [state |-> IF result.content = Escaped THEN "raised"
                                ELSE "done",
                      article |-> article,
                      gets |-> IF Falsy(article.url) THEN 0 ELSE html.attempts,
                      html |-> IF Falsy(article.url) THEN None
                               ELSE IF html.state = "raised" THEN "<raised>"
                               ELSE html.value,
                      doc |-> doc,
                      result |-> result]
       \* state "raised": an exception left the call, which the handler of
       \* line 338 rules out
    /\ UNCHANGED <<entry, pc, args, sources, fetch_content, save, max_workers,
                   tasks, all_articles, enrich, sink, outcome, error, returned,
                   wrote, page, api_log, req, date, data, scrape>>

----------------------------------------------------------------------------
(* Specifications *)

IdleRequest ==
    [state |-> "idle", url |-> "", attempt |-> 0, value |-> None, log |-> << >>]

Init ==
    /\ entry = ""
    /\ pc = "idle"
    /\ sources = << >>
    /\ fetch_content = FALSE
    /\ save = FALSE
    /\ max_workers = 0
    /\ tasks = << >>
    /\ all_articles = << >>
    /\ enrich = << >>
    /\ sink = PreviousRun
    /\ outcome = "idle"
    /\ error = ""
    /\ returned = << >>
    /\ wrote = ""
    /\ args = [given |-> FALSE, ids |-> << >>]
    /\ page = 0
    /\ api_log = << >>
    /\ req = IdleRequest
    /\ date = IdleDate
    /\ data = NoData
    /\ scrape = IdleScrape
    /\ fetched = IdleFetched

Next ==
    \/ \E given \in BOOLEAN, ids \in SourceLists, fc \in BOOLEAN, sv \in BOOLEAN :
          CallFetchNews(given, ids, fc, sv)
    \/ \E i \in DOMAIN tasks : StartSource(i)
    \/ \E i \in DOMAIN tasks : FinishSource(i)
    \/ \E i \in DOMAIN tasks : CollectSource(i)
    \/ JoinSources
    \/ \E j \in DOMAIN enrich : StartEnrich(j)
    \/ \E j \in DOMAIN enrich : FinishEnrich(j)
    \/ JoinEnrich
    \/ SortSaveReturn
    \/ \E sv \in BOOLEAN : CallFetchFinancialNews(sv)
    \/ \E resp \in ApiResponses : ApiFetchPage(resp)
    \/ ApiSaveReturn

Spec == Init /\ [][Next]_vars

NextRequest ==
    \/ \E url \in RequestUrls : CallMakeRequest(url)
    \/ \E o \in HttpOutcomes(req.url), delay \in Delays, jitter \in Jitters :
          RequestAttempt(o, delay, jitter)

SpecRequest == Init /\ [][NextRequest]_vars

NextDate ==
    /\ date.state = "idle"
    /\ \E date_text \in DateTexts, now \in Nows :
          CallParseDate(date_text, now)

SpecDate == Init /\ [][NextDate]_vars

NextExtract ==
    /\ scrape.state = "idle"
    /\ \E sid \in ExtractSources, nodes \in Documents :
          /\ \A i \in DOMAIN nodes : Realizable(sid, nodes[i])
          /\ CallScrapeSource(sid, nodes)

SpecExtract == Init /\ [][NextExtract]_vars

\* The pages of the termination check: the smallest non-empty page, which
\* makes the loop as long as it can get, beside the empty and the full one;
\* totalResults missing, reached at once, reached late or never reached.
SmallPageCounts == {0, 1, API_PAGE_SIZE}
SlowApiResponses ==
    {r \in ApiResponses : r.kind # "json" \/ r.status # "ok"}
    \cup {[kind |-> "json", status |-> "ok", n |-> n, total |-> t] :
             n \in SmallPageCounts, t \in TotalResults}

NextApi ==
    \/ \E sv \in BOOLEAN : CallFetchFinancialNews(sv)
    \/ \E resp \in SlowApiResponses : ApiFetchPage(resp)
    \/ ApiSaveReturn

\* fetch_financial_news runs in the calling thread: once called, it executes
\* its next statement, and every request is answered by a response or by an
\* exception.
ApiProgress ==
    /\ WF_vars(\E resp \in SlowApiResponses : ApiFetchPage(resp))
    /\ WF_vars(ApiSaveReturn)

SpecApi == Init /\ [][NextApi]_vars /\ ApiProgress

NextEnrich ==
    /\ fetched.state = "idle"
    /\ \E article \in EnrichArticles, doc \in EnrichDocs :
          \E outs \in RequestRuns(article.url) :
              CallFetchArticleContent(article, outs, doc)

SpecEnrich == Init /\ [][NextEnrich]_vars

----------------------------------------------------------------------------
(* Properties of fetch_news and fetch_financial_news, checked under Spec *)

\* the writes of _save_articles that raise
FailedWrites == {"open_fails", "dump_fails", "makedirs_fails"}

\* the futures whose _scrape_source call returned a list
OkTasks == {t \in DOMAIN tasks : tasks[t].res = "ok"}

\* the article nodes extracted by the calls that returned: <<task, position>>
ExtractedNodes ==
    UNION {{<<t, i>> : i \in DOMAIN tasks[t].articles} : t \in OkTasks}

NodeStub(n) == tasks[n[1]].articles[n[2]]

\* what identifies the stub of an article node, whatever its content
Key(a) == <<a.source, a.url, a.publishedAt>>

Range(list) == {list[i] : i \in DOMAIN list}

\* how often x occurs in list
Occurrences(list, x) == Cardinality({i \in DOMAIN list : list[i] = x})

IsPermutation(a, b) ==
    /\ Len(a) = Len(b)
    /\ \A x \in Range(a) \cup Range(b) : Occurrences(a, x) = Occurrences(b, x)

\* every element's publishedAt is >= the next one's
SortedNewestFirst(list) ==
    \A i \in 1..(Len(list) - 1) :
        StrLeq(list[i + 1].publishedAt, list[i].publishedAt)

IsRegistered(s) == s \in SOURCES

\* C1: whatever sources are selected and whichever of them fail, fetch_news
\* does not raise (a failed write of the output apart, which is fatal by
\* design) and returns exactly the stubs of the sources that succeeded.
\* The code violates it for a selection without any registered source.
C1_SourceFailuresIsolated ==
    (entry = "fetch_news" /\ pc = "done") =>
        /\ outcome = "returned" \/ wrote \in FailedWrites
        /\ outcome = "returned" =>
              /\ Len(returned) = Cardinality(ExtractedNodes)
              /\ \A n \in ExtractedNodes :
                    Cardinality({i \in DOMAIN returned :
                                    Key(returned[i]) = Key(NodeStub(n))})
                    = Cardinality({m \in ExtractedNodes :
                                    Key(NodeStub(m)) = Key(NodeStub(n))})

\* C2: unknown ids are dropped silently: the tasks submitted are exactly the
\* registered ids among those supplied (all registered ids when the argument
\* is omitted) and the call never fails with the pool's ValueError.
\* The code violates it when no supplied id is registered.
C2_UnknownIdsDropped ==
    entry = "fetch_news" =>
        /\ error # "ValueError"
        /\ [i \in DOMAIN tasks |-> tasks[i].sid]
              = IF args.given THEN SelectSeq(args.ids, IsRegistered)
                ELSE [i \in 1..NumSources |-> SOURCES_KEYS[i]]

\* C3: at most min(3, number of selected sources) scrape tasks and at most 3
\* enrichment tasks are executing at any time.
C3_BoundedConcurrency ==
    entry = "fetch_news" =>
        /\ Cardinality(Running(tasks)) <= Min(3, Len(sources))
        /\ Cardinality(Running(enrich)) <= 3

\* three scrape tasks execute while a fourth source waits in the queue
C3_Witness ==
    /\ pc = "scraping"
    /\ Len(sources) > 3
    /\ Cardinality(Running(tasks)) = 3
    /\ \E i \in DOMAIN tasks : tasks[i].st = "queued"

\* C4: the step that sorts and returns hands back a permutation of the
\* merged list, ordered descending by publishedAt.
C4_SortedPermutation ==
    [][(pc = "merged" /\ pc' = "done" /\ outcome' = "returned") =>
          /\ IsPermutation(returned', all_articles)
          /\ SortedNewestFirst(returned')]_vars

\* a returned list of three or more stubs bearing different dates
C4_Witness ==
    /\ entry = "fetch_news"
    /\ outcome = "returned"
    /\ Len(returned) >= 3
    /\ returned[1].publishedAt # returned[Len(returned)].publishedAt

\* C5: the returned list never holds two stubs with the same URL.
\* The code violates it: fetch_news extends, sorts and saves (lines 361-392)
\* and never compares URLs, so a source selected twice, or an article that
\* stands twice on a page, is returned twice.
C5_Deduplicated ==
    (entry = "fetch_news" /\ outcome = "returned") =>
        \A i, j \in DOMAIN returned :
            i # j => returned[i].url # returned[j].url

\* C6 as claimed: with save the file holds exactly the returned list, also
\* when that list is empty; without save the file is untouched.
C6_SavedWheneverAsked ==
    (entry = "fetch_news" /\ outcome = "returned") =>
        /\ save => sink = returned
        /\ ~save => sink = PreviousRun

\* C6 amended: with save and a non-empty list the file holds exactly the
\* returned list; without save, or when the list is empty, the file is left
\* as it was; the list returned is the final sorted list in every case.
C6_SavedWhenNonEmpty ==
    (entry = "fetch_news" /\ outcome = "returned") =>
        /\ (save /\ returned # << >>) => sink = returned
        /\ (~save \/ returned = << >>) => sink = PreviousRun
        /\ returned = all_articles

\* fetch_news returned a non-empty list with save set and the file was written
C6_Witness ==
    /\ entry = "fetch_news"
    /\ outcome = "returned"
    /\ save
    /\ returned # << >>
    /\ wrote = "written"

\* C7: on either path a write of the output that fails makes the call raise
\* instead of returning a list; on the scrape path nothing else does once a
\* source has been submitted, whatever the fetches and extractions do.
C7_OnlyPersistenceIsFatal ==
    /\ wrote \in FailedWrites =>
          outcome = "raised" /\ error = "IOError" /\ returned = << >>
    /\ (entry = "fetch_news" /\ outcome = "raised" /\ tasks # << >>) =>
          wrote \in FailedWrites

\* fetch_news raised on a failed write after a source's scrape had raised
C7_Witness ==
    /\ entry = "fetch_news"
    /\ wrote \in FailedWrites
    /\ outcome = "raised"
    /\ \E t \in DOMAIN tasks : tasks[t].res = "raised"

----------------------------------------------------------------------------
(* Properties of _make_request, checked under SpecRequest *)

\* the GETs of the running call, in order
Gets == SelectSeq(req.log, LAMBDA e : e.ev \notin {"delay", "backoff"})

\* C8: _make_request makes at most 3 attempts, returns the body of the first
\* successful one without trying again, returns None after the third failed
\* one, and never raises, whatever an attempt fails with.
\* The code violates it when an attempt fails with something that is no
\* requests RequestException.
C8_NeverRaises ==
    /\ req.state # "raised"
    /\ Len(Gets) <= 3
    /\ req.state = "returned" =>
          /\ \A i \in 1..(Len(Gets) - 1) : Gets[i].ev # "ok"
          /\ IF Gets[Len(Gets)].ev = "ok"
             THEN req.value # None
             ELSE req.value = None /\ Len(Gets) = 3

----------------------------------------------------------------------------
(* Properties of _parse_date, checked under SpecDate *)

\* date_text.lower().strip() of the call made
CallText == Strip(Lower(date.text))

\* the first integer written in the text
FirstInteger(text) ==
    LET first == CHOOSE i \in DOMAIN text :
                    /\ IsDecimal(text[i])
                    /\ \A j \in 1..(i - 1) : ~IsDecimal(text[j])
        last == CHOOSE i \in first..Len(text) :
                    /\ \A j \in first..i : IsDecimal(text[j])
                    /\ ~IsDecimal(At(text, i + 1))
    IN IntOf(SubSeq(text, first, last))

\* C9: for a text holding "ago", a recognised unit and an integer, the result
\* is now minus (the first integer of the text) x (the detected unit), a month
\* being 30 days, also when the text holds several numbers or unit words.
\* The code violates it for a text with more than one number: it joins every
\* digit of the text into one integer.
C9_RelativeUsesFirstInteger ==
    ( /\ date.state = "done"
      /\ Contains(CallText, W_ago)
      /\ DetectedUnit(CallText) # "none"
      /\ JoinedDigits(CallText) # << >> ) =>
        date.result = NowMinus(FirstInteger(CallText)
                               * UnitMinutes(DetectedUnit(CallText)))

\* the formats that parse the whole text
ParsingFormats(text) ==
    {k \in DOMAIN FORMATS : strptime(text, FORMATS[k]).ok}

IsAbsolute(text) ==
    /\ ~Contains(text, W_ago)
    /\ ~Contains(text, W_today)
    /\ ~Contains(text, W_yesterday)
    /\ ParsingFormats(text) # {}

\* C10: for an absolute date the first format of the list that parses the
\* whole text decides the result; the year is the one written in the text
\* when that format has a year, whatever year that is, and the reference
\* year only when the format has none.
\* The code violates it for a text whose written year is 1900.
C10_ExplicitYearKept ==
    (date.state = "done" /\ IsAbsolute(CallText)) =>
        LET k == CHOOSE k \in ParsingFormats(CallText) :
                    \A j \in ParsingFormats(CallText) : k <= j
            parsed == strptime(CallText, FORMATS[k])
            hasYear == \E i \in DOMAIN FORMATS[k] : FORMATS[k][i] = "%Y"
        IN date.result = Midnight(IF hasYear THEN parsed.year ELSE date.now.year,
                                  parsed.month, parsed.day)

\* no relative phrase, no today / yesterday literal and no format matches
NothingMatches(text) ==
    /\ ~Contains(text, W_ago)
    /\ ~Contains(text, W_today)
    /\ ~Contains(text, W_yesterday)
    /\ ParsingFormats(text) = {}

\* the try block of _parse_date raised on the text of the call
InternalError == IsException(parse_date_try(date.text, date.now))

\* C11: _parse_date never raises; for a text that matches no relative phrase,
\* no today / yesterday literal and no absolute format, and for a text on
\* which parsing hits an internal error, it returns now.
C11_FallsBackToNow ==
    date.state # "idle" =>
        /\ date.state = "done"
        /\ (NothingMatches(CallText) \/ InternalError) => date.result = NowMinus(0)

\* "ago" with a unit but no digit (int('') raises) has been parsed to now
C11_Witness ==
    /\ date.state = "done"
    /\ Contains(CallText, W_ago)
    /\ DetectedUnit(CallText) # "none"
    /\ JoinedDigits(CallText) = << >>
    /\ InternalError
    /\ date.result = NowMinus(0)

----------------------------------------------------------------------------
(* Properties of _scrape_source, checked under SpecExtract *)

\* the stubs _scrape_source returned
Stubs == {scrape.articles[i] : i \in DOMAIN scrape.articles}

\* C12: every stub returned by _scrape_source has a non-empty title.
\* The code violates it for a node whose title element holds no text or only
\* blanks: line 250 tests the element, never the text of line 252.
C12_NonEmptyTitles ==
    scrape.state = "done" => \A stub \in Stubs : stub.title # << >>

\* C13: every stub returned by _scrape_source has an absolute url whose
\* scheme is http or https, whatever the href of the node is.
\* The code violates it for an href with another scheme, which urljoin
\* returns as it is.
C13_AbsoluteHttpUrls ==
    scrape.state = "done" =>
        \A stub \in Stubs :
            StartsWith(stub.url, S_http) \/ StartsWith(stub.url, S_https)

\* a node with a title element and a link element with an href, whose
\* processing does not raise: urljoin accepts the href, and the source's
\* date selector is one select_one accepts
WellFormed(sid, node) ==
    /\ node.has_title
    /\ node.link = "href"
    /\ \/ StartsWith(node.href, S_http)
       \/ StartsWith(node.href, S_https)
       \/ ~urljoin(SourceUrlText(sid), node.href).raised
    /\ ~DateSelectorRaises(sid)

\* C14: the stubs returned are exactly the stubs of the well-formed nodes, in
\* document order; a node without title or link, or whose processing raises,
\* removes only itself.
C14_DocumentOrder ==
    scrape.state = "done" =>
        LET good == SelectSeq(scrape.nodes,
                              LAMBDA node : WellFormed(scrape.sid, node))
        IN scrape.articles =
              [i \in 1..Len(good) |-> ParseArticle(scrape.sid, good[i]).stub]

\* a malformed node stood between two different well-formed nodes, and the
\* stubs of these two were returned in their order
C14_Witness ==
    /\ scrape.state = "done"
    /\ Len(scrape.nodes) = 3
    /\ WellFormed(scrape.sid, scrape.nodes[1])
    /\ ~WellFormed(scrape.sid, scrape.nodes[2])
    /\ WellFormed(scrape.sid, scrape.nodes[3])
    /\ Len(scrape.articles) = 2
    /\ scrape.articles[1] = ParseArticle(scrape.sid, scrape.nodes[1]).stub
    /\ scrape.articles[2] = ParseArticle(scrape.sid, scrape.nodes[3]).stub
    /\ scrape.articles[1] # scrape.articles[2]

----------------------------------------------------------------------------
(* Properties of fetch_article_content, checked under SpecEnrich *)

\* C15: after fetch_article_content the content of a stub is null or a
\* non-empty text, never the empty string.
\* The code violates it when the winning container, or every paragraph, holds
\* only whitespace: lines 331 and 337 assign the empty string.
C15_ContentNullOrText ==
    fetched.state = "done" => fetched.result.content # << >>

\* the call failed: the fetch gave no page, or the extraction raised
FetchFailed == Falsy(fetched.html) \/ fetched.html = "<raised>" \/ fetched.doc.raises

\* C16: fetch_article_content never raises; with an empty url it issues no
\* fetch and returns the stub as it is; when the fetch fails or the extraction
\* raises, every field of the returned stub equals its value before the call.
C16_UnchangedOnFailure ==
    fetched.state # "idle" =>
        /\ fetched.state = "done"
        /\ Falsy(fetched.article.url) =>
              fetched.gets = 0 /\ fetched.result = fetched.article
        /\ FetchFailed => fetched.result = fetched.article

\* a stub that already had content went through a call whose _make_request
\* raised, and came back as it was
C16_Witness ==
    /\ fetched.state = "done"
    /\ ~Falsy(fetched.article.url)
    /\ fetched.html = "<raised>"
    /\ fetched.article.content # NoContent
    /\ fetched.result = fetched.article

----------------------------------------------------------------------------
(* Properties of fetch_financial_news, checked under Spec *)

\* C17: the list fetch_financial_news returns never holds more than 100
\* articles, for pages of at most 100 articles each.
\* The code violates it: line 97 stops the loop once 100 is reached but never
\* cuts the list, so a short page followed by a full one overshoots.
C17_HardCap ==
    (entry = "fetch_financial_news" /\ outcome = "returned") =>
        Len(returned) <= API_HARD_CAP

\* the body of the last response reports an API error
ApiErrorReported ==
    entry = "fetch_financial_news" /\ data.kind = "json" /\ data.status # "ok"

\* C18: a response whose status is not ok ends fetch_financial_news with an
\* exception that is no RequestException, while a transport error ends it
\* with a RequestException; the failing request is the last one, and nothing
\* is returned or written, whatever earlier pages brought.
C18_ApiErrorAborts ==
    /\ ApiErrorReported =>
          /\ pc = "done" /\ outcome = "raised"
          /\ error = "Exception"
          /\ api_log[Len(api_log)] = <<"get", page>>
          /\ returned = << >>
          /\ wrote = "" /\ sink = PreviousRun
    /\ (entry = "fetch_financial_news" /\ outcome = "raised" /\ wrote = ""
        /\ ~ApiErrorReported) => error = "RequestException"

\* page 2 answered with an error status after page 1 had brought articles
C18_Witness ==
    /\ ApiErrorReported
    /\ outcome = "raised"
    /\ page = 2
    /\ all_articles # << >>
    /\ returned = << >>
    /\ sink = PreviousRun

\* the log is: get 1, sleep, get 2, sleep, get 3, ...
PagesInOrder ==
    \A i \in DOMAIN api_log :
        api_log[i] = IF i % 2 = 1 THEN <<"get", (i + 1) \div 2>>
                     ELSE <<"sleep", API_PAGE_DELAY>>

\* C19: pages are requested as 1, 2, 3, ... without a gap or a repeat, one
\* second of sleep lies between two consecutive requests, and after the
\* request for page k the loop goes on to page k + 1 exactly when page k was
\* ok, held articles and left the total below totalResults and below 100.
C19_PageLoop ==
    [][ (pc = "api_paging" /\ api_log' # api_log) =>
          LET goesOn == pc' = "api_paging"
              total == IF data'.total = -1 THEN 0 ELSE data'.total
          IN /\ PagesInOrder'
             /\ api_log'[Len(api_log) + 1] = <<"get", page>>
             /\ goesOn <=> /\ outcome' = "running"
                           /\ data'.kind = "json" /\ data'.status = "ok"
                           /\ data'.n > 0
                           /\ Len(all_articles') < total
                           /\ Len(all_articles') < 100
             /\ IF goesOn
                THEN /\ page' = page + 1
                     /\ Len(api_log') = Len(api_log) + 2
                ELSE /\ page' = page
                     /\ Len(api_log') = Len(api_log) + 1 ]_vars

\* three pages have been requested, with a sleep between each two
C19_Witness ==
    /\ entry = "fetch_financial_news"
    /\ page = 3
    /\ api_log = <<<<"get", 1>>, <<"sleep", 1>>, <<"get", 2>>, <<"sleep", 1>>,
                   <<"get", 3>>>>

----------------------------------------------------------------------------
(* Properties of _make_request, checked under SpecRequest *)

\* the events of the log that are GETs
IsGet(e) == e.ev \notin {"delay", "backoff"}

\* C20: every attempt is preceded by one delay from [min_delay, max_delay],
\* and a failed attempt k is followed by a backoff sleep of 2^k plus jitter
\* exactly when k is not the last attempt; no backoff follows the last
\* attempt or a successful one.
\* The code violates it for an attempt that fails with an exception that is
\* no RequestException: no backoff and no further attempt follow.
C20_DelayAndBackoff ==
    \A i \in DOMAIN req.log :
        LET e == req.log[i]
        IN /\ e.ev = "delay" =>
                /\ e.secs \in min_delay..max_delay
                /\ i < Len(req.log) /\ IsGet(req.log[i + 1])
                /\ req.log[i + 1].k = e.k
           /\ IsGet(e) =>
                /\ i > 1 /\ req.log[i - 1].ev = "delay"
                /\ (e.ev # "ok" /\ e.k < max_retries - 1)
                   <=> /\ i < Len(req.log)
                       /\ req.log[i + 1].ev = "backoff"
                       /\ req.log[i + 1].k = e.k
                       /\ req.log[i + 1].secs - Pow2(e.k) \in {0, 1}
           /\ e.ev = "backoff" => i > 1 /\ IsGet(req.log[i - 1])

----------------------------------------------------------------------------
(* Concurrency of fetch_news, checked under Spec *)

\* no _scrape_source call is queued, running or waiting to be collected
ScrapeQuiet == \A i \in DOMAIN tasks : tasks[i].st = "collected"
\* no fetch_article_content call is queued or running
EnrichQuiet == \A j \in DOMAIN enrich : enrich[j].st = "done"

\* this step is taken by a pool thread: a _scrape_source call starts or ends
ScrapeTaskStep ==
    \E i \in DOMAIN tasks \cap DOMAIN tasks' :
        tasks'[i].st # tasks[i].st /\ tasks'[i].st \in {"running", "finished"}

\* this step is taken by a pool thread: fetch_article_content of item j
\* starts or ends
EnrichTaskStep(j) ==
    /\ j \in DOMAIN enrich \cap DOMAIN enrich'
    /\ enrich'[j].st # enrich[j].st

\* C21: no enrichment task starts before every source task has finished and
\* been collected; sorting, persisting and returning happen only after every
\* source and enrichment task has finished; and the merged list is built by
\* the orchestrating thread alone: a step of a source task leaves it as it
\* is, and a step of an enrichment task changes at most the content of the
\* one stub that task was given, whatever other tasks are running.
C21_CollectAfterJoin ==
    [][ entry' = "fetch_news" =>
          /\ (\E j \in DOMAIN enrich' : enrich'[j].st # "queued") => ScrapeQuiet'
          /\ (pc' \in {"merged", "done"} /\ tasks' # << >>) =>
                ScrapeQuiet' /\ EnrichQuiet'
          /\ (sink' # sink \/ wrote' # wrote \/ returned' # returned) =>
                ScrapeQuiet /\ EnrichQuiet /\ pc = "merged"
          /\ ScrapeTaskStep => all_articles' = all_articles
          /\ \A j \in DOMAIN enrich :
                EnrichTaskStep(j) =>
                    /\ Len(all_articles') = Len(all_articles)
                    /\ \A k \in DOMAIN all_articles :
                          k # j => all_articles'[k] = all_articles[k]
                    /\ [all_articles'[j] EXCEPT !.content = NoContent]
                          = [all_articles[j] EXCEPT !.content = NoContent] ]_vars

\* one enrichment task has filled in its stub while another one is running
\* and a third stub is still untouched, after every source was collected
C21_Witness ==
    /\ pc = "enriching"
    /\ ScrapeQuiet
    /\ \E j, k \in DOMAIN enrich :
          /\ enrich[j].st = "done"
          /\ all_articles[j].content # NoContent
          /\ enrich[k].st = "running"
          /\ all_articles[k].content = NoContent

----------------------------------------------------------------------------
(* Selector order of fetch_article_content, checked under SpecEnrich *)

\* the call fetched a page and its extraction ran to the end
Extracted ==
    /\ fetched.state = "done"
    /\ ~Falsy(fetched.article.url)
    /\ ~FetchFailed

\* the position in BODY_SELECTORS of a selector
SelectorRank(selector) ==
    CHOOSE k \in DOMAIN BODY_SELECTORS : BODY_SELECTORS[k] = selector

\* container b of the page is the one the claim names: no container matches
\* a selector that is tried earlier, and no earlier container of the page
\* matches the same selector
Supplies(doc, b) ==
    \A c \in DOMAIN doc.bodies :
        /\ SelectorRank(doc.bodies[c].selector)
              >= SelectorRank(doc.bodies[b].selector)
        /\ (c < b => doc.bodies[c].selector # doc.bodies[b].selector)

\* C22: the body selectors are tried in their fixed order and the first one
\* that matches supplies the content, whatever later selectors match and
\* wherever their elements stand in the page; the paragraph fallback (the
\* stripped paragraph texts in document order, blank ones dropped, joined by
\* newlines) is used only when no body selector matches at all.
C22_SelectorOrder ==
    Extracted =>
        /\ \A b \in DOMAIN fetched.doc.bodies :
              Supplies(fetched.doc, b) =>
                 fetched.result.content = CleanText(fetched.doc.bodies[b].text)
        /\ (fetched.doc.bodies = << >> /\ fetched.doc.paragraphs # << >>) =>
              fetched.result.content = ParagraphText(fetched.doc.paragraphs)
        /\ (fetched.doc.bodies = << >> /\ fetched.doc.paragraphs = << >>) =>
              fetched.result.content = fetched.article.content

\* a page whose first container matches a selector tried later than the one
\* its second container matches, with a paragraph besides: the second
\* container supplied the content, neither the first nor the paragraph did
C22_Witness ==
    /\ Extracted
    /\ Len(fetched.doc.bodies) = 2
    /\ SelectorRank(fetched.doc.bodies[2].selector)
          < SelectorRank(fetched.doc.bodies[1].selector)
    /\ fetched.doc.paragraphs # << >>
    /\ fetched.result.content = CleanText(fetched.doc.bodies[2].text)
    /\ fetched.result.content # CleanText(fetched.doc.bodies[1].text)
    /\ fetched.result.content # ParagraphText(fetched.doc.paragraphs)

----------------------------------------------------------------------------
(* Termination of the page loop of fetch_financial_news, checked under
   SpecApi *)

\* the page requests issued so far
PageRequests == Cardinality({i \in DOMAIN api_log : api_log[i][1] = "get"})

\* C23: the page loop always terminates.  Whatever the responses are, a
\* round of the loop that goes on to the next page has made the list longer
\* and has left it below 100 articles, so no more than 100 page requests are
\* ever issued; and a call that is in the loop leaves it, by a return or by
\* an exception.
C23_LoopTerminates ==
    /\ [][ (pc = "api_paging" /\ pc' = "api_paging") =>
              /\ Len(all_articles') > Len(all_articles)
              /\ Len(all_articles') < API_HARD_CAP ]_vars
    /\ [](entry = "fetch_financial_news" => PageRequests <= API_HARD_CAP)
    /\ (pc = "api_paging") ~> (outcome \in {"returned", "raised"})

\* the longest run: pages of one article each, totalResults never reached,
\* 100 page requests, and the call returned
C23_Witness ==
    /\ entry = "fetch_financial_news"
    /\ outcome = "returned"
    /\ PageRequests = API_HARD_CAP
    /\ page = API_HARD_CAP
    /\ Len(returned) = API_HARD_CAP

====
